---- MODULE Spec2Model ----
(***************************************************************************)
(* Versioned-document engine of uc-velocity: purchase orders and quotes,   *)
(* their line items, snapshots, fulfillment events (receivings, invoices)  *)
(* and revert.  One request = one database transaction (database.py,       *)
(* get_db): a handler that raises leaves the committed state untouched.    *)
(* The model follows one document; `kind` says which table it lives in.    *)
(* Document creation is followed apart, for one project: its requests run  *)
(* concurrently and meet at the lock on the project row (kind "project").  *)
(* Fulfillments posted concurrently against one document are followed      *)
(* apart as well: there `sessions` holds what each session has loaded.     *)
(***************************************************************************)
EXTENDS Integers, Sequences, FiniteSets, TLC

\* ---------------------------------------------------------------- bounds
MaxLineId == 3        \* line-item row ids handed out by the database
MaxLines == 2         \* line items of a document that gets cloned
MaxQty == 2           \* largest quantity a request may carry
MaxEntries == 2       \* entries in one fulfill request / one batch
MaxRequests == 2      \* requests followed after the initial state
MaxSessions == 2      \* requests in flight at once (creations, fulfillments)
MaxDocuments == 3     \* documents created in one project

\* ------------------------------------------------------------ input sets
UnitPrices == {500}             \* cents
PriceInputs == {-1, 600}        \* -1 stands for "actual_unit_price omitted"
NoInput == -1
POStatuses == {"Draft", "Sent", "Received", "Closed"}
LineIds == 1..MaxLineId
Quantities == 1..MaxQty

VARIABLES
  kind,            \* "po" or "quote": the table the followed document is in
  po,              \* PurchaseOrder row: status, current_version
  po_line_items,   \* POLineItem rows of the PO, keyed by id
  po_snapshots,    \* POSnapshot rows in id order, each with its POLineItemSnapshot rows
  po_receivings,   \* POReceiving rows in id order, each with its POReceivingLineItem rows
  next_line_id,    \* next id of the po_line_items sequence
  quote,           \* Quote row: current_version, client_po_number, markup control
  quote_line_items,\* QuoteLineItem rows of the quote, keyed by id
  quote_snapshots, \* QuoteSnapshot rows in id order, each with its item rows
  invoices,        \* Invoice rows in id order, each with its InvoiceLineItem rows
  next_quote_line_id, \* next id of the quote_line_items sequence
  last,            \* last request handled: operation, outcome, its input (arg)
                   \* and, when rejected, the raise it ended with (code)
  served,          \* number of requests handled since the initial state
  project_lock,    \* session holding the project row FOR UPDATE, 0 when none
  sessions,        \* requests in flight: position, and what the session holds
                   \* (their outcome goes to `last` when they end)
  documents,       \* committed PurchaseOrder / Quote rows of the project, in id order
  assigned         \* every (kind, sequence) a committed document was given

po_db == <<po, po_line_items, po_snapshots, po_receivings, next_line_id>>
quote_db == <<quote, quote_line_items, quote_snapshots, invoices, next_quote_line_id>>
project_db == <<project_lock, sessions, documents, assigned>>
vars == <<kind, po_db, quote_db, last, served, project_db>>

\* ------------------------------------------------------------ arithmetic
RECURSIVE GCD(_, _)
GCD(a, b) == IF b = 0 THEN a ELSE GCD(b, a % b)

\* Python None for a float column
None == <<0, 0>>

\* total_cost / total_qty as an exact fraction in lowest terms
Quotient(total_cost, total_qty) ==
  LET g == GCD(total_cost, total_qty) IN <<total_cost \div g, total_qty \div g>>

Unclamped(a, b) == b
Max(a, b) == IF a >= b THEN a ELSE b

\* --------------------------------------------------- receiving aggregates
RECURSIVE QtyInLines(_, _)
QtyInLines(lines, id) ==
  IF lines = <<>> THEN 0
  ELSE (IF Head(lines).po_line_item_id = id
        THEN Head(lines).qty_received_this_receiving ELSE 0)
       + QtyInLines(Tail(lines), id)

RECURSIVE CostInLines(_, _)
CostInLines(lines, id) ==
  IF lines = <<>> THEN 0
  ELSE (IF Head(lines).po_line_item_id = id
        THEN Head(lines).actual_unit_price * Head(lines).qty_received_this_receiving
        ELSE 0)
       + CostInLines(Tail(lines), id)

\* rows of POReceivingLineItem JOIN POReceiving WHERE voided_at IS NULL
RECURSIVE TotalReceived(_, _)
TotalReceived(receivings, id) ==
  IF receivings = <<>> THEN 0
  ELSE (IF Head(receivings).voided THEN 0 ELSE QtyInLines(Head(receivings).lines, id))
       + TotalReceived(Tail(receivings), id)

RECURSIVE TotalCost(_, _)
TotalCost(receivings, id) ==
  IF receivings = <<>> THEN 0
  ELSE (IF Head(receivings).voided THEN 0 ELSE CostInLines(Head(receivings).lines, id))
       + TotalCost(Tail(receivings), id)

\* `receivings` are the rows the query sees: the session is autoflush=False,
\* so rows added with db.add() and not yet flushed are not among them.
calculate_weighted_average_price(id, receivings) ==
  IF TotalReceived(receivings, id) = 0 THEN None
  ELSE Quotient(TotalCost(receivings, id), TotalReceived(receivings, id))

KeepAggregates(line_item, id, receivings) == line_item
recompute_line_item_aggregates(line_item, id, receivings) ==
  LET total_received == TotalReceived(receivings, id) IN
  [line_item EXCEPT
     !.qty_received = total_received,
     !.qty_pending = Max(0, line_item.quantity - total_received),
     !.actual_unit_price = calculate_weighted_average_price(id, receivings)]

\* FK po_receiving_line_items.po_line_item_id -> po_line_items.id (no ON DELETE):
\* a row that any receiving line references cannot be deleted.
Referenced(receivings, id) ==
  \E r \in 1..Len(receivings) :
    \E l \in 1..Len(receivings[r].lines) : receivings[r].lines[l].po_line_item_id = id

\* -------------------------------------------------------------- snapshots
UnflaggedItemSnapshot(id, item, deleted) ==
  [original_line_item_id |-> id,
   quantity |-> item.quantity,
   unit_price |-> item.unit_price,
   qty_pending |-> item.qty_pending,
   qty_received |-> item.qty_received,
   actual_unit_price |-> item.actual_unit_price,
   is_deleted |-> FALSE]

ItemSnapshot(id, item, deleted) ==
  [original_line_item_id |-> id,
   quantity |-> item.quantity,
   unit_price |-> item.unit_price,
   qty_pending |-> item.qty_pending,
   qty_received |-> item.qty_received,
   actual_unit_price |-> item.actual_unit_price,
   is_deleted |-> deleted]

AlwaysNewVersion(p, lines, snapshots, action_type, receiving_id, deleted_id) ==
  LET new_version == p.current_version + 1
      snapshot == [version |-> new_version,
                   action_type |-> action_type,
                   receiving_id |-> receiving_id,
                   items |-> {ItemSnapshot(id, lines[id], id = deleted_id) : id \in DOMAIN lines}]
  IN [po |-> [p EXCEPT !.current_version = new_version],
      snapshots |-> Append(snapshots, snapshot)]

DeleteKeepsVersion(p, lines, snapshots, action_type, receiving_id, deleted_id) ==
  LET new_version == IF action_type \in {"create", "status_change", "delete"}
                     THEN p.current_version
                     ELSE p.current_version + 1
      snapshot == [version |-> new_version,
                   action_type |-> action_type,
                   receiving_id |-> receiving_id,
                   items |-> {ItemSnapshot(id, lines[id], id = deleted_id) : id \in DOMAIN lines}]
  IN [po |-> [p EXCEPT !.current_version = new_version],
      snapshots |-> Append(snapshots, snapshot)]

EditKeepsVersion(p, lines, snapshots, action_type, receiving_id, deleted_id) ==
  LET new_version == IF action_type \in {"create", "status_change", "edit"}
                     THEN p.current_version
                     ELSE p.current_version + 1
      snapshot == [version |-> new_version,
                   action_type |-> action_type,
                   receiving_id |-> receiving_id,
                   items |-> {ItemSnapshot(id, lines[id], id = deleted_id) : id \in DOMAIN lines}]
  IN [po |-> [p EXCEPT !.current_version = new_version],
      snapshots |-> Append(snapshots, snapshot)]

\* Returns the PO row and the snapshot table after the call.  deleted_id = 0
\* when no deleted_line_item is passed.
create_po_snapshot(p, lines, snapshots, action_type, receiving_id, deleted_id) ==
  LET new_version == IF action_type \in {"create", "status_change"}
                     THEN p.current_version
                     ELSE p.current_version + 1
      snapshot == [version |-> new_version,
                   action_type |-> action_type,
                   receiving_id |-> receiving_id,
                   items |-> {ItemSnapshot(id, lines[id], id = deleted_id) : id \in DOMAIN lines}]
  IN [po |-> [p EXCEPT !.current_version = new_version],
      snapshots |-> Append(snapshots, snapshot)]

\* ------------------------------------------------------- request outcomes
\* The committed rows of the followed purchase order
PODB == [po |-> po, line_items |-> po_line_items, snapshots |-> po_snapshots,
         receivings |-> po_receivings, next_line_id |-> next_line_id]

\* db.commit(): the session's rows become the committed rows
Ok(db) == [ok |-> TRUE, db |-> db, code |-> 0]

\* The handler raised (HTTPException, IntegrityError) with the given rows
\* committed; code tells which raise it was.
Fail(db, code) == [ok |-> FALSE, db |-> db, code |-> code]

\* get_db: the session is closed without commit, so what the handler wrote
\* to it before raising is discarded
NoRollback(committed, session) == session
Rollback(committed, session) == committed

NewLine(quantity, unit_price) ==
  [quantity |-> quantity, unit_price |-> unit_price,
   qty_pending |-> quantity, qty_received |-> 0, actual_unit_price |-> None]

\* function f extended with id |-> v
Put(f, id, v) == [k \in DOMAIN f \cup {id} |-> IF k = id THEN v ELSE f[k]]
Drop(f, ids) == [k \in DOMAIN f \ ids |-> f[k]]

\* Sequences over S of length 0..n
SeqsUpTo(S, n) == UNION {[1..k -> S] : k \in 0..n}

RECURSIVE SortedSeq(_)
SortedSeq(S) ==
  IF S = {} THEN <<>>
  ELSE LET m == CHOOSE x \in S : \A y \in S : x <= y
       IN <<m>> \o SortedSeq(S \ {m})

\* ------------------------------------------- purchase order: creation
\* A purchase order is made by create_purchase_order (any status, no lines)
\* or by clone_purchase_order (Draft, the source's lines with quantities
\* reset); the clone depends on its source only through the lines' quantity
\* and unit_price.
create_purchase_order(status) ==
  LET r == create_po_snapshot([status |-> status, current_version |-> 0],
                              <<>>, <<>>, "create", 0, 0)
  IN [po |-> r.po, line_items |-> <<>>, snapshots |-> r.snapshots,
      receivings |-> <<>>, next_line_id |-> 1]

clone_purchase_order(source_lines) ==
  LET cloned == [id \in DOMAIN source_lines |->
                   NewLine(source_lines[id].quantity, source_lines[id].unit_price)]
      r == create_po_snapshot([status |-> "Draft", current_version |-> 0],
                              cloned, <<>>, "create", 0, 0)
  IN [po |-> r.po, line_items |-> cloned, snapshots |-> r.snapshots,
      receivings |-> <<>>, next_line_id |-> Len(source_lines) + 1]

\* ----------------------------------------- purchase order: status update
update_purchase_order(db, status) ==
  IF status # db.po.status
  THEN LET r == create_po_snapshot([db.po EXCEPT !.status = status], db.line_items,
                                   db.snapshots, "status_change", 0, 0)
       IN Ok([db EXCEPT !.po = r.po, !.snapshots = r.snapshots])
  ELSE Ok(db)

\* -------------------------------------------- purchase order: line items
AlwaysEditable(db) == TRUE
check_po_editable(db) == db.po.status = "Draft"

add_po_line(db, quantity, unit_price) ==
  IF ~check_po_editable(db) THEN Fail(db, 0)
  ELSE LET lines == Put(db.line_items, db.next_line_id, NewLine(quantity, unit_price))
           r == create_po_snapshot(db.po, lines, db.snapshots, "edit", 0, 0)
       IN Ok([db EXCEPT !.line_items = lines, !.next_line_id = @ + 1,
                        !.po = r.po, !.snapshots = r.snapshots])

update_po_line(db, line_id, quantity, unit_price) ==
  IF ~check_po_editable(db) THEN Fail(db, 0)
  ELSE IF line_id \notin DOMAIN db.line_items THEN Fail(db, 1)
  ELSE LET db_line == db.line_items[line_id]
           lines == [db.line_items EXCEPT ![line_id] =
                       [db_line EXCEPT
                          !.quantity = quantity,
                          !.unit_price = unit_price,
                          !.qty_pending = Max(0, quantity - db_line.qty_received)]]
           r == create_po_snapshot(db.po, lines, db.snapshots, "edit", 0, 0)
       IN Ok([db EXCEPT !.line_items = lines, !.po = r.po, !.snapshots = r.snapshots])

delete_po_line(db, line_id) ==
  IF ~check_po_editable(db) THEN Fail(db, 0)
  ELSE IF line_id \notin DOMAIN db.line_items THEN Fail(db, 1)
  ELSE IF Referenced(db.receivings, line_id) THEN Fail(db, 2)   \* IntegrityError
  ELSE LET r == create_po_snapshot(db.po, db.line_items, db.snapshots, "delete", 0, line_id)
       IN Ok([db EXCEPT !.line_items = Drop(db.line_items, {line_id}),
                        !.po = r.po, !.snapshots = r.snapshots])

\* ---------------------------------------------- purchase order: batch
POChanges ==
  [action : {"add"}, line_item_id : {0}, quantity : Quantities, unit_price : UnitPrices]
  \cup [action : {"edit"}, line_item_id : LineIds,
        quantity : Quantities, unit_price : UnitPrices]
  \cup [action : {"delete"}, line_item_id : LineIds, quantity : {0}, unit_price : {0}]

IsDelete(c) == c.action = "delete"
NeverEdit(c) == FALSE
IsEdit(c) == c.action = "edit"
IsAdd(c) == c.action = "add"

\* EDITS loop: validates and updates each line in turn
RECURSIVE ApplyPOEdits(_, _)
ApplyPOEdits(edits, lines) ==
  IF edits = <<>> THEN [ok |-> TRUE, lines |-> lines]
  ELSE LET edit == Head(edits) IN
       IF edit.line_item_id \notin DOMAIN lines
       THEN [ok |-> FALSE, lines |-> lines]
       ELSE LET db_line == lines[edit.line_item_id] IN
            IF edit.quantity < db_line.qty_received
            THEN [ok |-> FALSE, lines |-> lines]
            ELSE ApplyPOEdits(Tail(edits),
                   [lines EXCEPT ![edit.line_item_id] =
                      [db_line EXCEPT
                         !.quantity = edit.quantity,
                         !.unit_price = edit.unit_price,
                         !.qty_pending = Max(0, edit.quantity - db_line.qty_received)]])

\* ADDS loop: rows get their ids in db.add() order when the session is flushed
RECURSIVE ApplyPOAdds(_, _, _)
ApplyPOAdds(adds, lines, next_id) ==
  IF adds = <<>> THEN [lines |-> lines, next_id |-> next_id]
  ELSE ApplyPOAdds(Tail(adds),
                   Put(lines, next_id, NewLine(Head(adds).quantity, Head(adds).unit_price)),
                   next_id + 1)

commit_po_edits(db, changes) ==
  IF ~check_po_editable(db) THEN Fail(db, 0)
  ELSE IF changes = <<>> THEN Ok(db)
  ELSE
    LET deletes == SelectSeq(changes, IsDelete)
        edits == SelectSeq(changes, IsEdit)
        adds == SelectSeq(changes, IsAdd)
        delete_ids == {deletes[i].line_item_id : i \in 1..Len(deletes)}
        lines_to_delete == delete_ids \cap DOMAIN db.line_items
        edited == ApplyPOEdits(edits, db.line_items)
    IN IF Cardinality(lines_to_delete) # Len(deletes) THEN Fail(db, 1)
       ELSE IF ~edited.ok
       THEN Fail(Rollback(db, [db EXCEPT !.line_items = edited.lines]), 2)
       ELSE IF \E id \in lines_to_delete : Referenced(db.receivings, id)
       THEN Fail(db, 3)                                \* IntegrityError at flush
       ELSE LET added == ApplyPOAdds(adds, Drop(edited.lines, lines_to_delete),
                                     db.next_line_id)
                r == create_po_snapshot(db.po, added.lines, db.snapshots, "edit", 0, 0)
            IN Ok([db EXCEPT !.line_items = added.lines, !.next_line_id = added.next_id,
                             !.po = r.po, !.snapshots = r.snapshots])

\* ------------------------------------------- purchase order: receiving
\* the request schemas turn away a body with a quantity that is not positive
PositiveQuantities(entries, field) ==
  \A i \in 1..Len(entries) : entries[i][field] > 0

POReceivingEntries ==
  [po_line_item_id : LineIds, qty_received : 0..MaxQty, actual_unit_price : PriceInputs]

\* The loop over receiving_data.line_items.  `lines` are the session's
\* POLineItem objects (updated in place as the loop goes), `flushed` the
\* receiving rows a query can see, n the entries handled so far.
RECURSIVE ReceiveLoop(_, _, _, _, _)
ReceiveLoop(entries, lines, receiving_lines, flushed, n) ==
  IF entries = <<>>
  THEN [ok |-> TRUE, lines |-> lines, receiving_lines |-> receiving_lines, n |-> n]
  ELSE LET e == Head(entries)
           id == e.po_line_item_id
           failed == [ok |-> FALSE, lines |-> lines,
                      receiving_lines |-> receiving_lines, n |-> n]
       IN
       IF id \notin DOMAIN lines THEN failed        \* not found / other PO
       ELSE IF e.qty_received <= 0 THEN failed
       ELSE IF e.qty_received > lines[id].qty_pending THEN failed
       ELSE
         LET line_item == lines[id]
             receiving_line_item ==
               [po_line_item_id |-> id,
                actual_unit_price |-> IF e.actual_unit_price # NoInput
                                      THEN e.actual_unit_price
                                      ELSE line_item.unit_price,
                qty_ordered |-> line_item.quantity,
                qty_received_this_receiving |-> e.qty_received,
                qty_received_total |-> line_item.qty_received + e.qty_received,
                qty_pending_after |-> line_item.qty_pending - e.qty_received]
             updated ==
               [line_item EXCEPT
                  !.qty_received = @ + e.qty_received,
                  !.qty_pending = @ - e.qty_received,
                  !.actual_unit_price = calculate_weighted_average_price(id, flushed)]
         IN ReceiveLoop(Tail(entries), [lines EXCEPT ![id] = updated],
                        Append(receiving_lines, receiving_line_item), flushed, n + 1)

NeverAllReceived(lines) == FALSE
\* all(li.qty_pending == 0 for li in all_line_items)
AllReceived(lines) == \A id \in DOMAIN lines : lines[id].qty_pending = 0

AnyPOStatus == POStatuses
\* "PO must be Sent or Received."
ReceivingStatuses == {"Sent", "Received"}

create_po_receiving(db, entries) ==
  IF ~PositiveQuantities(entries, "qty_received") THEN Fail(db, -2)   \* 422
  ELSE IF db.po.status \notin ReceivingStatuses THEN Fail(db, -1)
  ELSE
    LET loop == ReceiveLoop(entries, db.line_items, <<>>, db.receivings, 0) IN
    IF ~loop.ok
    THEN Fail(Rollback(db, [db EXCEPT !.line_items = loop.lines]), loop.n)
    ELSE
      LET receiving == [voided |-> FALSE, voided_by_snapshot_id |-> 0,
                        lines |-> loop.receiving_lines]
          receivings == Append(db.receivings, receiving)
          r1 == create_po_snapshot(db.po, loop.lines, db.snapshots, "receive",
                                   Len(receivings), 0)
          all_received == AllReceived(loop.lines)
          r2 == IF all_received /\ db.po.status # "Received"
                THEN create_po_snapshot([r1.po EXCEPT !.status = "Received"], loop.lines,
                                        r1.snapshots, "status_change", 0, 0)
                ELSE r1
      IN Ok([db EXCEPT !.po = r2.po, !.snapshots = r2.snapshots,
                       !.line_items = loop.lines, !.receivings = receivings])

\* ---------------------------------------------- purchase order: revert
\* UPDATE po_receiving_line_items SET po_line_item_id = new WHERE po_line_item_id = old
Repoint(receivings, old, new) ==
  [r \in 1..Len(receivings) |->
     [receivings[r] EXCEPT !.lines =
        [l \in 1..Len(receivings[r].lines) |->
           IF receivings[r].lines[l].po_line_item_id = old
           THEN [receivings[r].lines[l] EXCEPT !.po_line_item_id = new]
           ELSE receivings[r].lines[l]]]]

\* one UPDATE per entry of line_item_id_mapping, in insertion order
RECURSIVE RepointAll(_, _, _)
RepointAll(receivings, originals, mapping) ==
  IF originals = <<>> THEN receivings
  ELSE RepointAll(Repoint(receivings, Head(originals), mapping[Head(originals)]),
                  Tail(originals), mapping)

RestoredLine(item_snapshot) ==
  [quantity |-> item_snapshot.quantity, unit_price |-> item_snapshot.unit_price,
   qty_pending |-> item_snapshot.quantity, qty_received |-> 0,
   actual_unit_price |-> None]

\* receivings joined to a snapshot with version > `version`, not yet voided
FutureReceivings(db, version) ==
  {r \in 1..Len(db.receivings) :
     /\ ~db.receivings[r].voided
     /\ \E s \in 1..Len(db.snapshots) :
          /\ db.snapshots[s].receiving_id = r
          /\ db.snapshots[s].version > version}

KeepDraft(lines) == "Draft"

StatusFromAggregates(lines) ==
  IF \A id \in DOMAIN lines : lines[id].qty_pending = lines[id].quantity THEN "Draft"
  ELSE IF \A id \in DOMAIN lines : lines[id].qty_pending = 0 THEN "Received"
  ELSE "Sent"

\* the snapshots the target lookup (.first() without ORDER BY) may return
TargetSnapshots(db, version) ==
  {s \in 1..Len(db.snapshots) : db.snapshots[s].version = version}

\* a read-only request answered with the events it lists
Listed(db, events) == [ok |-> TRUE, db |-> db, code |-> 0, events |-> events]

NothingToVoid(db, version) == {}
\* receivings_to_void: joined to a snapshot with version > `version`,
\* voided_at IS NULL
ReceivingsToVoid(db, version) ==
  {r \in 1..Len(db.receivings) :
     /\ \E s \in 1..Len(db.snapshots) :
          /\ db.snapshots[s].receiving_id = r
          /\ db.snapshots[s].version > version
     /\ ~db.receivings[r].voided}

preview_po_revert(db, version) ==
  IF version > db.po.current_version THEN Fail(db, 0)
  ELSE IF TargetSnapshots(db, version) = {} THEN Fail(db, 1)
  ELSE IF version = db.po.current_version THEN Fail(db, 2)
  ELSE Listed(db, ReceivingsToVoid(db, version))

\* t: the row the target lookup returned
revert_po_to_version(db, version, t) ==
  IF TargetSnapshots(db, version) = {} THEN Fail(db, 0)
  ELSE IF version = db.po.current_version THEN Fail(db, 1)
  ELSE IF version > db.po.current_version THEN Fail(db, 2)
  ELSE
    LET future_receivings == FutureReceivings(db, version)
        voided == [r \in 1..Len(db.receivings) |->
                     IF r \in future_receivings
                     THEN [db.receivings[r] EXCEPT !.voided = TRUE,
                                                   !.voided_by_snapshot_id = 0]
                     ELSE db.receivings[r]]
        snapshot_items == {it \in db.snapshots[t].items : ~it.is_deleted}
        originals == {it.original_line_item_id : it \in snapshot_items}
        state_of(o) == CHOOSE it \in snapshot_items : it.original_line_item_id = o
        existing == DOMAIN db.line_items
        created == originals \ existing
        line_item_id_mapping ==
          [o \in originals |->
             IF o \in existing THEN o
             ELSE db.next_line_id + Cardinality({x \in created : x < o})]
        deleted == existing \ originals
        restored == [id \in {line_item_id_mapping[o] : o \in originals} |->
                       RestoredLine(state_of(
                         CHOOSE o \in originals : line_item_id_mapping[o] = id))]
        repointed == RepointAll(voided, SortedSeq(originals), line_item_id_mapping)
        recomputed == [id \in DOMAIN restored |->
                         recompute_line_item_aggregates(restored[id], id, repointed)]
        status == StatusFromAggregates(recomputed)
        r == create_po_snapshot([db.po EXCEPT !.status = status], recomputed,
                                db.snapshots, "revert", 0, 0)
        revert_snapshot_id == Len(r.snapshots)
    IN IF \E id \in deleted : Referenced(voided, id)
       THEN Fail(Rollback(db, [db EXCEPT !.receivings = voided]), 3)  \* IntegrityError at db.flush()
       ELSE Ok([po |-> r.po,
                snapshots |-> r.snapshots,
                line_items |-> recomputed,
                receivings |->
                  [i \in 1..Len(repointed) |->
                     IF i \in future_receivings
                     THEN [repointed[i] EXCEPT !.voided_by_snapshot_id = revert_snapshot_id]
                     ELSE repointed[i]],
                next_line_id |-> db.next_line_id + Cardinality(created)])

\* ------------------------------------------------ purchase order: steps
\* no creation request is followed
NoProject ==
  /\ project_lock = 0
  /\ sessions = <<>>
  /\ documents = <<>>
  /\ assigned = <<>>

\* The rows fit the bounds of the model
POFits(db) == db.next_line_id <= MaxLineId + 1

\* One request: its outcome is committed (or not) and recorded in `last`
PORequest(op, input, r) ==
  /\ POFits(r.db)
  /\ po' = r.db.po
  /\ po_line_items' = r.db.line_items
  /\ po_snapshots' = r.db.snapshots
  /\ po_receivings' = r.db.receivings
  /\ next_line_id' = r.db.next_line_id
  /\ last' = [op |-> op, ok |-> r.ok, arg |-> input,
               code |-> IF r.ok THEN 0 ELSE r.code]
  /\ served' = served + 1
  /\ UNCHANGED <<kind, quote_db, project_db>>

\* A run is followed for MaxRequests requests, or up to the first rejected
\* one: a rejected request commits nothing, so what can follow it can as well
\* follow the request before it.
Serving(k) == kind = k /\ served < MaxRequests /\ last.ok

\* The purchase orders a run starts from: one just made (created in any
\* status, or cloned), a clone that was then sent, and a sent clone on which
\* its first line was then received, in part or in full.
POMade ==
  {create_purchase_order(s) : s \in POStatuses}
  \cup {clone_purchase_order(source_lines) :
          source_lines \in UNION {[1..n -> [quantity : Quantities,
                                            unit_price : UnitPrices]] :
                                  n \in 1..MaxLines}}

POSent ==
  {update_purchase_order(db, "Sent").db : db \in {m \in POMade : DOMAIN m.line_items # {}}}

POReceivedOnce ==
  {r.db : r \in {x \in {create_po_receiving(db, <<[po_line_item_id |-> 1,
                                                  qty_received |-> q,
                                                  actual_unit_price |-> NoInput]>>) :
                           db \in POSent, q \in Quantities} : x.ok}}

InitPO ==
  /\ kind = "po"
  /\ \E db \in POMade \cup POSent \cup POReceivedOnce :
       /\ po = db.po
       /\ po_line_items = db.line_items
       /\ po_snapshots = db.snapshots
       /\ po_receivings = db.receivings
       /\ next_line_id = db.next_line_id
  /\ quote = <<>>
  /\ quote_line_items = <<>>
  /\ quote_snapshots = <<>>
  /\ invoices = <<>>
  /\ next_quote_line_id = 0
  /\ last = [op |-> "create", ok |-> TRUE, arg |-> 0, code |-> 0]
  /\ served = 0
  /\ NoProject

UpdatePurchaseOrder ==
  /\ Serving("po")
  /\ \E status \in POStatuses :
       PORequest("status", 0, update_purchase_order(PODB, status))

AddPOLine ==
  /\ Serving("po")
  /\ \E quantity \in Quantities, unit_price \in UnitPrices :
       PORequest("add", 0, add_po_line(PODB, quantity, unit_price))

UpdatePOLine ==
  /\ Serving("po")
  /\ \E line_id \in LineIds, quantity \in Quantities, unit_price \in UnitPrices :
       PORequest("edit", 0, update_po_line(PODB, line_id, quantity, unit_price))

DeletePOLine ==
  /\ Serving("po")
  /\ \E line_id \in LineIds : PORequest("delete", 0, delete_po_line(PODB, line_id))

CommitPOEdits ==
  /\ Serving("po")
  /\ \E changes \in SeqsUpTo(POChanges, MaxEntries) :
       PORequest("commit", 0, commit_po_edits(PODB, changes))

CreatePOReceiving ==
  /\ Serving("po")
  /\ \E entries \in SeqsUpTo(POReceivingEntries, MaxEntries) :
       PORequest("receive", entries, create_po_receiving(PODB, entries))

\* versions a revert may ask for: every recorded one, and one beyond
Versions(current_version) == 0..(current_version + 1)

RevertPOToVersion ==
  /\ Serving("po")
  /\ \E version \in Versions(po.current_version) :
       \E t \in IF TargetSnapshots(PODB, version) = {} THEN {0}
                ELSE TargetSnapshots(PODB, version) :
         PORequest("revert", version, revert_po_to_version(PODB, version, t))

\* the answer of a preview is kept in last.arg, next to the version asked for
Previewed(version, r) ==
  [version |-> version, events |-> IF r.ok THEN r.events ELSE {}]

PreviewPORevert ==
  /\ Serving("po")
  /\ \E version \in Versions(po.current_version) :
       LET r == preview_po_revert(PODB, version)
       IN PORequest("preview", Previewed(version, r), r)

NextPO ==
  \/ PreviewPORevert
  \/ UpdatePurchaseOrder
  \/ AddPOLine
  \/ UpdatePOLine
  \/ DeletePOLine
  \/ CommitPOEdits
  \/ CreatePOReceiving
  \/ RevertPOToVersion

SpecPO == InitPO /\ [][NextPO]_vars

\* ================================================================ quotes
Null == -1                      \* SQL NULL / Python None in a numeric column
QuotePrices == {11000}          \* cents
PartCosts == {0, 10000}         \* parts.cost the catalog may hold for the part the
                                \* lines sell, at the time a request looks it up
PartMarkup == 10                \* parts.markup_percent of that part
MarkupPercents == {20, 50}      \* global markup percents asked for
ClientPONumbers == {Null, 7}    \* no client PO number, or some non-blank one
InvoiceStatuses == {"Sent", "Paid", "Voided"}
DiscountCodeIds == {5}          \* discount_codes.id of the codes not archived

\* The committed rows of the followed quote
QuoteDB == [quote |-> quote, line_items |-> quote_line_items,
            snapshots |-> quote_snapshots, invoices |-> invoices,
            next_line_id |-> next_quote_line_id]

\* ---------------------------------------------------------------- snapshots
QuoteItemSnapshot(id, item, deleted) ==
  [original_line_item_id |-> id,
   quantity |-> item.quantity,
   unit_price |-> item.unit_price,
   qty_pending |-> item.qty_pending,
   qty_fulfilled |-> item.qty_fulfilled,
   is_deleted |-> deleted,
   is_pms |-> item.is_pms,
   discount_code_id |-> item.discount_code_id,
   original_markup_percent |-> item.original_markup_percent,
   base_cost |-> item.base_cost]

\* Always a new version.  Returns the quote row and the snapshot table.
\* deleted_id names the line delete_quote_line flags in its own snapshot.
QuoteSnapshotOf(q, lines, snapshots, action_type, invoice_id, deleted_id) ==
  LET new_version == q.current_version + 1
      snapshot == [version |-> new_version,
                   action_type |-> action_type,
                   invoice_id |-> invoice_id,
                   items |-> {QuoteItemSnapshot(id, lines[id], id = deleted_id) :
                                id \in DOMAIN lines}]
  IN [quote |-> [q EXCEPT !.current_version = new_version],
      snapshots |-> Append(snapshots, snapshot)]

create_snapshot(q, lines, snapshots, action_type, invoice_id) ==
  QuoteSnapshotOf(q, lines, snapshots, action_type, invoice_id, 0)

\* ------------------------------------------------------------------ pricing
\* part_cost: part.cost as the catalog has it when the request asks
calculate_base_cost(item, part_cost) == IF item.is_pms THEN 0 ELSE part_cost

get_original_markup(item) == IF item.is_pms THEN 0 ELSE PartMarkup

\* base_cost * (1 + percent / 100)
MarkedUp(base_cost, percent) == (base_cost * (100 + percent)) \div 100

\* a new item on a quote under markup control takes the global markup
ApplyGlobalMarkup(q, item, part_cost) ==
  IF q.markup_control_enabled /\ ~item.is_pms
  THEN LET base_cost == calculate_base_cost(item, part_cost) IN
       [item EXCEPT
          !.original_markup_percent = get_original_markup(item),
          !.base_cost = base_cost,
          !.unit_price = IF base_cost # 0 /\ q.global_markup_percent # Null
                         THEN MarkedUp(base_cost, q.global_markup_percent)
                         ELSE @]
  ELSE item

\* ------------------------------------------------------------- quote: creation
\* the fields of a line a request can give
\* part lines, with or without a discount code, and PMS lines (labor lines
\* without a catalog entry, priced by hand)
QuoteLineInputs ==
  [quantity : Quantities, unit_price : QuotePrices,
   is_pms : {FALSE}, discount_code_id : {Null} \cup DiscountCodeIds]
  \cup [quantity : Quantities, unit_price : QuotePrices,
        is_pms : {TRUE}, discount_code_id : {Null}]

NewQuoteLine(line_data) ==
  [quantity |-> line_data.quantity,
   unit_price |-> line_data.unit_price,
   qty_pending |-> line_data.quantity,
   qty_fulfilled |-> 0,
   is_pms |-> line_data.is_pms,
   discount_code_id |-> line_data.discount_code_id,
   original_markup_percent |-> Null,
   base_cost |-> Null]

\* A quote is made by create_quote (no lines) or by clone_quote (the source's
\* lines with quantities reset); neither records a snapshot.
create_quote(client_po_number) ==
  [quote |-> [current_version |-> 0, client_po_number |-> client_po_number,
              markup_control_enabled |-> FALSE, global_markup_percent |-> Null],
   line_items |-> <<>>, snapshots |-> <<>>, invoices |-> <<>>, next_line_id |-> 1]

clone_quote(source_lines, client_po_number) ==
  [quote |-> [current_version |-> 0, client_po_number |-> client_po_number,
              markup_control_enabled |-> FALSE, global_markup_percent |-> Null],
   line_items |-> [id \in DOMAIN source_lines |-> NewQuoteLine(source_lines[id])],
   snapshots |-> <<>>, invoices |-> <<>>,
   next_line_id |-> Len(source_lines) + 1]

\* ------------------------------------------------------------ quote: header
\* client_po_number.strip() or None; 0 stands for a blank string
update_quote(db, client_po_number) ==
  IF client_po_number # NoInput
  THEN Ok([db EXCEPT !.quote.client_po_number =
             IF client_po_number = 0 THEN Null ELSE client_po_number])
  ELSE Ok(db)

NeverFrozen(lines) == FALSE
\* some line item has qty_fulfilled > 0
Frozen(lines) == \E id \in DOMAIN lines : lines[id].qty_fulfilled > 0

NoneExempt(item) == FALSE
\* PMS items are exempt from markup control: the loops skip them
Exempt(item) == item.is_pms

ResolvedAgain(item, part_cost) == IF item.is_pms THEN 0 ELSE part_cost
\* update mode prices from the base_cost the line item already holds, whatever
\* the catalog says by now
ExistingBaseCost(item, part_cost) == item.base_cost

toggle_markup_control(db, enabled, global_markup_percent, part_cost) ==
  IF Frozen(db.line_items) THEN Fail(db, 0)
  ELSE IF enabled /\ global_markup_percent = NoInput THEN Fail(db, 1)
  ELSE IF enabled /\ db.quote.markup_control_enabled
  THEN \* update mode: recalculates from the stored base_cost
    LET q == [db.quote EXCEPT !.global_markup_percent = global_markup_percent]
        lines == [id \in DOMAIN db.line_items |->
                    LET item == db.line_items[id] IN
                    IF ~Exempt(item) /\ item.base_cost # Null
                    THEN [item EXCEPT !.unit_price =
                            MarkedUp(ExistingBaseCost(item, part_cost),
                                     global_markup_percent)]
                    ELSE item]
        r == create_snapshot(q, lines, db.snapshots, "edit", 0)
    IN Ok([db EXCEPT !.quote = r.quote, !.line_items = lines, !.snapshots = r.snapshots])
  ELSE IF enabled
  THEN \* enable mode
    IF \E id \in DOMAIN db.line_items : db.line_items[id].discount_code_id # Null
    THEN Fail(db, 2)
    ELSE
      LET q == [db.quote EXCEPT !.markup_control_enabled = TRUE,
                                !.global_markup_percent = global_markup_percent]
          lines == [id \in DOMAIN db.line_items |->
                      LET item == db.line_items[id]
                          base_cost == calculate_base_cost(item, part_cost)
                      IN IF Exempt(item) THEN item
                         ELSE [item EXCEPT
                                 !.original_markup_percent = get_original_markup(item),
                                 !.base_cost = base_cost,
                                 !.unit_price = IF base_cost # 0
                                                THEN MarkedUp(base_cost, global_markup_percent)
                                                ELSE @]]
          r == create_snapshot(q, lines, db.snapshots, "edit", 0)
      IN Ok([db EXCEPT !.quote = r.quote, !.line_items = lines, !.snapshots = r.snapshots])
  ELSE \* disable: restores the original markups
    LET q == [db.quote EXCEPT !.markup_control_enabled = FALSE,
                              !.global_markup_percent = Null]
        lines == [id \in DOMAIN db.line_items |->
                    LET item == db.line_items[id] IN
                    IF ~Exempt(item) /\ item.base_cost # Null
                       /\ item.original_markup_percent # Null
                    THEN [item EXCEPT !.unit_price =
                            MarkedUp(item.base_cost, item.original_markup_percent)]
                    ELSE item]
        r == create_snapshot(q, lines, db.snapshots, "edit", 0)
    IN Ok([db EXCEPT !.quote = r.quote, !.line_items = lines, !.snapshots = r.snapshots])

\* ---------------------------------------------------------- quote: line items
add_quote_line(db, line_data, part_cost) ==
  IF Frozen(db.line_items) THEN Fail(db, 0)
  ELSE IF line_data.discount_code_id # Null /\ db.quote.markup_control_enabled
  THEN Fail(db, 1)
  ELSE LET db_line == ApplyGlobalMarkup(db.quote, NewQuoteLine(line_data), part_cost)
           lines == Put(db.line_items, db.next_line_id, db_line)
           r == create_snapshot(db.quote, lines, db.snapshots, "create", 0)
       IN Ok([db EXCEPT !.line_items = lines, !.next_line_id = @ + 1,
                        !.quote = r.quote, !.snapshots = r.snapshots])

\* what a single-line edit can give: each field may be omitted
QuoteLineUpdates ==
  [quantity : Quantities \cup {NoInput}, unit_price : QuotePrices \cup {NoInput},
   discount_code_id : {NoInput}]

\* the rejection "Cannot reduce quantity below fulfilled amount"
QuantityConflict == 2

update_quote_line(db, line_id, line_data) ==
  IF Frozen(db.line_items) THEN Fail(db, 0)
  ELSE IF line_id \notin DOMAIN db.line_items THEN Fail(db, 1)
  ELSE
    LET db_line == db.line_items[line_id]
        with_quantity ==
          IF line_data.quantity # NoInput
          THEN [db_line EXCEPT !.quantity = line_data.quantity,
                               !.qty_pending = line_data.quantity - db_line.qty_fulfilled]
          ELSE db_line
        with_price ==
          IF line_data.unit_price # NoInput
          THEN [with_quantity EXCEPT !.unit_price = line_data.unit_price]
          ELSE with_quantity
        with_discount ==
          IF line_data.discount_code_id = NoInput THEN with_price
          ELSE IF line_data.discount_code_id = 0
          THEN [with_price EXCEPT !.discount_code_id = Null]
          ELSE [with_price EXCEPT !.discount_code_id = line_data.discount_code_id]
        changes ==
          \/ line_data.quantity # NoInput /\ line_data.quantity # db_line.quantity
          \/ line_data.unit_price # NoInput /\ line_data.unit_price # db_line.unit_price
          \/ with_discount.discount_code_id # db_line.discount_code_id
        lines == [db.line_items EXCEPT ![line_id] = with_discount]
        r == IF changes
             THEN create_snapshot(db.quote, lines, db.snapshots, "edit", 0)
             ELSE [quote |-> db.quote, snapshots |-> db.snapshots]
    IN IF line_data.quantity # NoInput /\ line_data.quantity < db_line.qty_fulfilled
       THEN Fail(db, QuantityConflict)
       ELSE IF line_data.discount_code_id \notin {NoInput, 0}
               /\ db.quote.markup_control_enabled
       THEN Fail(Rollback(db, [db EXCEPT !.line_items[line_id] = with_price]), 3)
       ELSE Ok([db EXCEPT !.line_items = lines, !.quote = r.quote,
                          !.snapshots = r.snapshots])

delete_quote_line(db, line_id) ==
  IF Frozen(db.line_items) THEN Fail(db, 0)
  ELSE IF line_id \notin DOMAIN db.line_items THEN Fail(db, 1)
  ELSE LET r == QuoteSnapshotOf(db.quote, db.line_items, db.snapshots, "delete", 0, line_id)
       IN Ok([db EXCEPT !.line_items = Drop(db.line_items, {line_id}),
                        !.quote = r.quote, !.snapshots = r.snapshots])

\* ---------------------------------------------------------------- quote: batch
QuoteChanges ==
  [action : {"add"}, line_item_id : {0}, quantity : Quantities \cup {NoInput},
   unit_price : QuotePrices, is_pms : {FALSE}, discount_code_id : {Null}]
  \cup [action : {"edit"}, line_item_id : LineIds, quantity : Quantities \cup {NoInput},
        unit_price : {NoInput}, is_pms : {FALSE}, discount_code_id : {NoInput}]
  \cup [action : {"delete"}, line_item_id : LineIds, quantity : {NoInput},
        unit_price : {NoInput}, is_pms : {FALSE}, discount_code_id : {NoInput}]

\* The loop over request.changes, in the order given.  `lines` are the rows a
\* query finds; `deleted` the rows marked by db.delete() that the next flush
\* removes (the session does not flush before a query).
RECURSIVE CommitLoop(_, _, _, _, _, _)
CommitLoop(changes, q, lines, deleted, next_id, part_cost) ==
  IF changes = <<>>
  THEN [ok |-> TRUE, lines |-> lines, deleted |-> deleted, next_id |-> next_id]
  ELSE
    LET change == Head(changes)
        failed == [ok |-> FALSE, lines |-> lines, deleted |-> deleted, next_id |-> next_id]
    IN
    IF change.action = "add"
    THEN IF change.discount_code_id # Null /\ q.markup_control_enabled THEN failed
         ELSE LET quantity == IF change.quantity = NoInput THEN 1 ELSE change.quantity
                  new_item == ApplyGlobalMarkup(q,
                                NewQuoteLine([change EXCEPT !.quantity = quantity]),
                                part_cost)
              IN \* db.flush(): pending deletes go, the new row gets its id
                 CommitLoop(Tail(changes), q,
                            Put(Drop(lines, deleted), next_id, new_item),
                            {}, next_id + 1, part_cost)
    ELSE IF change.action = "edit"
    THEN IF change.line_item_id \notin DOMAIN lines THEN failed
         ELSE LET line_item == lines[change.line_item_id] IN
              IF change.quantity # NoInput /\ change.quantity # line_item.quantity
              THEN IF change.quantity < line_item.qty_fulfilled THEN failed
                   ELSE CommitLoop(Tail(changes), q,
                          [lines EXCEPT ![change.line_item_id] =
                             [line_item EXCEPT
                                !.quantity = change.quantity,
                                !.qty_pending = change.quantity - line_item.qty_fulfilled]],
                          deleted, next_id, part_cost)
              ELSE CommitLoop(Tail(changes), q, lines, deleted, next_id, part_cost)
    ELSE \* delete
         IF change.line_item_id \notin DOMAIN lines THEN failed
         ELSE CommitLoop(Tail(changes), q, lines,
                         deleted \cup {change.line_item_id}, next_id, part_cost)

commit_edits(db, changes, part_cost) ==
  IF Frozen(db.line_items) THEN Fail(db, 0)
  ELSE IF changes = <<>> THEN Fail(db, 1)
  ELSE
    LET loop == CommitLoop(changes, db.quote, db.line_items, {}, db.next_line_id,
                           part_cost) IN
    IF ~loop.ok
    THEN Fail(Rollback(db, [db EXCEPT !.line_items = loop.lines,
                                      !.next_line_id = loop.next_id]), 2)
    ELSE LET lines == Drop(loop.lines, loop.deleted)   \* db.flush() in create_snapshot
             r == create_snapshot(db.quote, lines, db.snapshots, "edit", 0)
         IN Ok([db EXCEPT !.line_items = lines, !.next_line_id = loop.next_id,
                          !.quote = r.quote, !.snapshots = r.snapshots])

\* -------------------------------------------------------------- quote: invoice
Fulfillments == [line_item_id : LineIds, quantity : 0..MaxQty]

\* first loop: every entry is checked against the rows as they are
RECURSIVE ValidFulfillments(_, _)
ValidFulfillments(fulfillments, lines) ==
  IF fulfillments = <<>> THEN 0
  ELSE LET f == Head(fulfillments) IN
       IF f.line_item_id \notin DOMAIN lines THEN 0
       ELSE IF f.quantity <= 0 THEN 0
       ELSE IF f.quantity > lines[f.line_item_id].qty_pending THEN 0
       ELSE 1 + ValidFulfillments(Tail(fulfillments), lines)

\* second loop: invoice lines are written and the line items updated in place
RECURSIVE InvoiceLoop(_, _, _)
InvoiceLoop(fulfillments, lines, invoice_lines) ==
  IF fulfillments = <<>> THEN [lines |-> lines, invoice_lines |-> invoice_lines]
  ELSE LET f == Head(fulfillments)
           line_item == lines[f.line_item_id]
           invoice_line ==
             [quote_line_item_id |-> f.line_item_id,
              qty_ordered |-> line_item.quantity,
              qty_fulfilled_this_invoice |-> f.quantity,
              qty_fulfilled_total |-> line_item.qty_fulfilled + f.quantity,
              qty_pending_after |-> line_item.qty_pending - f.quantity]
       IN InvoiceLoop(Tail(fulfillments),
                      [lines EXCEPT ![f.line_item_id] =
                         [line_item EXCEPT !.qty_fulfilled = @ + f.quantity,
                                           !.qty_pending = @ - f.quantity]],
                      Append(invoice_lines, invoice_line))

create_invoice(db, fulfillments) ==
  IF ~PositiveQuantities(fulfillments, "quantity") THEN Fail(db, -3)   \* 422
  ELSE IF db.quote.client_po_number = Null THEN Fail(db, -2)
  ELSE IF fulfillments = <<>> THEN Fail(db, -1)
  ELSE IF ValidFulfillments(fulfillments, db.line_items) < Len(fulfillments)
  THEN Fail(db, ValidFulfillments(fulfillments, db.line_items))
  ELSE
    LET loop == InvoiceLoop(fulfillments, db.line_items, <<>>)
        invoice == [status |-> "Sent", voided_at |-> FALSE,
                    voided_by_snapshot_id |-> 0, lines |-> loop.invoice_lines]
        all_invoices == Append(db.invoices, invoice)
        r == create_snapshot(db.quote, loop.lines, db.snapshots, "invoice",
                             Len(all_invoices))
    IN Ok([db EXCEPT !.line_items = loop.lines, !.invoices = all_invoices,
                     !.quote = r.quote, !.snapshots = r.snapshots])

AnyStatus == InvoiceStatuses
valid_statuses == {"Sent", "Paid"}

update_invoice_status(db, invoice_id, status) ==
  IF invoice_id \notin 1..Len(db.invoices) THEN Fail(db, 0)
  ELSE IF db.invoices[invoice_id].status = "Voided" THEN Fail(db, 1)
  ELSE IF status \notin valid_statuses THEN Fail(db, 2)
  ELSE IF db.invoices[invoice_id].status = "Paid" /\ status = "Sent" THEN Fail(db, 3)
  ELSE Ok([db EXCEPT !.invoices[invoice_id].status = status])

\* --------------------------------------------------------------- quote: revert
AllLiveInvoices(db, version) ==
  {i \in 1..Len(db.invoices) : db.invoices[i].status # "Voided"}

\* invoices not Voided, joined to a snapshot with version > `version`
InvoicesAfter(db, version) ==
  {i \in 1..Len(db.invoices) :
     /\ db.invoices[i].status # "Voided"
     /\ \E s \in 1..Len(db.snapshots) :
          /\ db.snapshots[s].invoice_id = i
          /\ db.snapshots[s].version > version}

OnlyFuture(version, current_version) == version > current_version
\* "Cannot revert to current or future version"
CurrentOrFuture(version, current_version) == version >= current_version

QuoteTargetSnapshots(db, version) ==
  {s \in 1..Len(db.snapshots) : db.snapshots[s].version = version}

ResetQuoteLine(item_state) ==
  [quantity |-> item_state.quantity,
   unit_price |-> item_state.unit_price,
   qty_pending |-> item_state.qty_pending,
   qty_fulfilled |-> 0,
   is_pms |-> item_state.is_pms,
   discount_code_id |-> item_state.discount_code_id,
   original_markup_percent |-> item_state.original_markup_percent,
   base_cost |-> item_state.base_cost]

RestoredQuoteLine(item_state) ==
  [quantity |-> item_state.quantity,
   unit_price |-> item_state.unit_price,
   qty_pending |-> item_state.qty_pending,
   qty_fulfilled |-> item_state.qty_fulfilled,
   is_pms |-> item_state.is_pms,
   discount_code_id |-> item_state.discount_code_id,
   original_markup_percent |-> item_state.original_markup_percent,
   base_cost |-> item_state.base_cost]

RevertSnapshotAtSameVersion(q, lines, snapshots) ==
  [quote |-> q,
   snapshots |-> Append(snapshots,
                        [version |-> q.current_version, action_type |-> "revert",
                         invoice_id |-> 0,
                         items |-> {QuoteItemSnapshot(id, lines[id], FALSE) :
                                      id \in DOMAIN lines}])]

\* the revert writes its snapshot itself: version + 1, then the restored rows
RevertSnapshot(q, lines, snapshots) ==
  LET new_version == q.current_version + 1 IN
  [quote |-> [q EXCEPT !.current_version = new_version],
   snapshots |-> Append(snapshots,
                        [version |-> new_version, action_type |-> "revert",
                         invoice_id |-> 0,
                         items |-> {QuoteItemSnapshot(id, lines[id], FALSE) :
                                      id \in DOMAIN lines}])]

\* invoices_to_void: not Voided, joined to a snapshot with version > `version`
InvoicesToVoid(db, version) ==
  {i \in 1..Len(db.invoices) :
     /\ db.invoices[i].status # "Voided"
     /\ \E s \in 1..Len(db.snapshots) :
          /\ db.snapshots[s].invoice_id = i
          /\ db.snapshots[s].version > version}

preview_revert(db, version) ==
  IF QuoteTargetSnapshots(db, version) = {} THEN Fail(db, 0)
  ELSE Listed(db, InvoicesToVoid(db, version))

\* t: the row the target lookup returned
revert_to_snapshot(db, version, t) ==
  IF QuoteTargetSnapshots(db, version) = {} THEN Fail(db, 0)
  ELSE IF CurrentOrFuture(version, db.quote.current_version) THEN Fail(db, 1)
  ELSE
    LET invoices_after == InvoicesAfter(db, version)
        voided == [i \in 1..Len(db.invoices) |->
                     IF i \in invoices_after
                     THEN [db.invoices[i] EXCEPT !.status = "Voided", !.voided_at = TRUE]
                     ELSE db.invoices[i]]
        item_states == {it \in db.snapshots[t].items : ~it.is_deleted}
        originals == {it.original_line_item_id : it \in item_states}
        state_of(o) == CHOOSE it \in item_states : it.original_line_item_id = o
        \* rows are inserted in the order of the snapshot's item rows
        new_id(o) == db.next_line_id + Cardinality({x \in originals : x < o})
        restored == [id \in {new_id(o) : o \in originals} |->
                       RestoredQuoteLine(state_of(CHOOSE o \in originals : new_id(o) = id))]
        r == RevertSnapshot(db.quote, restored, db.snapshots)
    IN Ok([quote |-> r.quote,
           line_items |-> restored,
           snapshots |-> r.snapshots,
           invoices |-> voided,
           next_line_id |-> db.next_line_id + Cardinality(originals)])

\* ---------------------------------------------------------------- quote: steps
QuoteFits(db) == db.next_line_id <= MaxLineId + 1

QuoteRequest(op, input, r) ==
  /\ QuoteFits(r.db)
  /\ quote' = r.db.quote
  /\ quote_line_items' = r.db.line_items
  /\ quote_snapshots' = r.db.snapshots
  /\ invoices' = r.db.invoices
  /\ next_quote_line_id' = r.db.next_line_id
  /\ last' = [op |-> op, ok |-> r.ok, arg |-> input,
               code |-> IF r.ok THEN 0 ELSE r.code]
  /\ served' = served + 1
  /\ UNCHANGED <<kind, po_db, project_db>>

\* The quotes a run starts from: one just made (created empty, or cloned
\* from lines without discount codes), a created one that was given a first
\* line, one of those on which part or all of the first line was then
\* invoiced, and a created one whose first line, given with a discount code,
\* was then deleted.
QuoteCreated == {create_quote(n) : n \in ClientPONumbers}

QuoteCloned ==
  {clone_quote(source_lines, n) :
     source_lines \in UNION {[1..k -> {l \in QuoteLineInputs : l.discount_code_id = Null}] :
                                k \in 1..MaxLines},
     n \in ClientPONumbers}

QuoteLined ==
  {add_quote_line(db, line_data, part_cost).db :
     db \in QuoteCreated, line_data \in QuoteLineInputs, part_cost \in PartCosts}

QuoteInvoicedOnce ==
  {r.db : r \in {x \in {create_invoice(db, <<[line_item_id |-> 1, quantity |-> q]>>) :
                          db \in QuoteLined \cup QuoteCloned, q \in Quantities} : x.ok}}

QuoteDiscountDropped ==
  {delete_quote_line(db, 1).db :
     db \in {l \in QuoteLined : l.line_items[1].discount_code_id # Null}}

InitQuote ==
  /\ kind = "quote"
  /\ \E db \in QuoteCreated \cup QuoteCloned \cup QuoteLined \cup QuoteInvoicedOnce
               \cup QuoteDiscountDropped :
       /\ quote = db.quote
       /\ quote_line_items = db.line_items
       /\ quote_snapshots = db.snapshots
       /\ invoices = db.invoices
       /\ next_quote_line_id = db.next_line_id
  /\ po = <<>>
  /\ po_line_items = <<>>
  /\ po_snapshots = <<>>
  /\ po_receivings = <<>>
  /\ next_line_id = 0
  /\ last = [op |-> "create", ok |-> TRUE, arg |-> 0, code |-> 0]
  /\ served = 0
  /\ NoProject

UpdateQuote ==
  /\ Serving("quote")
  /\ \E client_po_number \in {NoInput, 0, 7} :
       QuoteRequest("header", 0, update_quote(QuoteDB, client_po_number))

ToggleMarkupControl ==
  /\ Serving("quote")
  /\ \E enabled \in BOOLEAN, global_markup_percent \in MarkupPercents \cup {NoInput},
        part_cost \in PartCosts :
       QuoteRequest("markup", 0,
                    toggle_markup_control(QuoteDB, enabled, global_markup_percent,
                                          part_cost))

AddQuoteLine ==
  /\ Serving("quote")
  /\ \E line_data \in QuoteLineInputs, part_cost \in PartCosts :
       QuoteRequest("add", 0, add_quote_line(QuoteDB, line_data, part_cost))

UpdateQuoteLine ==
  /\ Serving("quote")
  /\ \E line_id \in LineIds, line_data \in QuoteLineUpdates :
       QuoteRequest("edit", [line_id |-> line_id, line_data |-> line_data],
                    update_quote_line(QuoteDB, line_id, line_data))

DeleteQuoteLine ==
  /\ Serving("quote")
  /\ \E line_id \in LineIds :
       QuoteRequest("delete", 0, delete_quote_line(QuoteDB, line_id))

CommitEdits ==
  /\ Serving("quote")
  /\ \E changes \in SeqsUpTo(QuoteChanges, MaxEntries), part_cost \in PartCosts :
       QuoteRequest("commit", 0, commit_edits(QuoteDB, changes, part_cost))

CreateInvoice ==
  /\ Serving("quote")
  /\ \E fulfillments \in SeqsUpTo(Fulfillments, MaxEntries) :
       QuoteRequest("invoice", fulfillments, create_invoice(QuoteDB, fulfillments))

UpdateInvoiceStatus ==
  /\ Serving("quote")
  /\ \E invoice_id \in 1..(Len(invoices) + 1), status \in InvoiceStatuses :
       QuoteRequest("invoice_status", 0,
                    update_invoice_status(QuoteDB, invoice_id, status))

RevertToSnapshot ==
  /\ Serving("quote")
  /\ \E version \in Versions(quote.current_version) :
       \E t \in IF QuoteTargetSnapshots(QuoteDB, version) = {} THEN {0}
                ELSE QuoteTargetSnapshots(QuoteDB, version) :
         QuoteRequest("revert", version, revert_to_snapshot(QuoteDB, version, t))

PreviewRevert ==
  /\ Serving("quote")
  /\ \E version \in Versions(quote.current_version) :
       LET r == preview_revert(QuoteDB, version)
       IN QuoteRequest("preview", Previewed(version, r), r)

NextQuote ==
  \/ PreviewRevert
  \/ UpdateQuote
  \/ ToggleMarkupControl
  \/ AddQuoteLine
  \/ UpdateQuoteLine
  \/ DeleteQuoteLine
  \/ CommitEdits
  \/ CreateInvoice
  \/ UpdateInvoiceStatus
  \/ RevertToSnapshot

SpecQuote == InitQuote /\ [][NextQuote]_vars

\* ============================================== project: document creation
\* create_purchase_order, clone_purchase_order, create_quote and clone_quote
\* of one project, each in its own session: lock the project row, read the
\* highest sequence of the kind, insert the document, commit.  A statement
\* sees the rows committed when it starts (READ COMMITTED, the default of
\* the PostgreSQL engine).
Kinds == {"po", "quote"}
Sessions == 1..MaxSessions

NoSession == [pc |-> "idle", request |-> "none", kind |-> "none", next_sequence |-> 0]

\* SELECT max(sequence) over the committed documents of the kind; 0 for None
RECURSIVE MaxSequence(_, _)
MaxSequence(docs, k) ==
  IF docs = <<>> THEN 0
  ELSE Max(IF Head(docs).kind = k THEN Head(docs).sequence ELSE 0,
           MaxSequence(Tail(docs), k))

get_next_po_sequence(docs) == MaxSequence(docs, "po") + 1

get_next_quote_sequence(docs) == MaxSequence(docs, "quote") + 1

SharedLock(lock) == TRUE
\* SELECT ... FOR UPDATE on the project row returns once no other
\* transaction holds the row
with_for_update(lock) == lock = 0

\* uq_po_project_sequence, uq_quote_project_sequence
UniqueSequence(docs, k, sequence) ==
  \A i \in 1..Len(docs) : ~(docs[i].kind = k /\ docs[i].sequence = sequence)

InFlight == {p \in Sessions : sessions[p].pc # "idle"}

Creating(p, request, k) ==
  /\ sessions[p].pc = "idle"
  /\ Len(assigned) + Cardinality(InFlight) < MaxDocuments
  /\ sessions' = [sessions EXCEPT ![p] = [pc |-> "started", request |-> request,
                                          kind |-> k, next_sequence |-> 0]]
  /\ UNCHANGED <<project_lock, documents, assigned>>
  /\ UNCHANGED <<kind, po_db, quote_db, last, served>>

\* POST /purchase-orders/ or /quotes/ arrives
BeginCreate ==
  \E p \in Sessions, k \in Kinds :
    /\ kind = "project"
    /\ Creating(p, "create", k)

\* POST /{id}/clone arrives and finds its source document
BeginClone ==
  \E p \in Sessions, k \in Kinds :
    /\ kind = "project"
    /\ \E i \in 1..Len(documents) : documents[i].kind = k
    /\ Creating(p, "clone", k)

\* the session's SELECT ... FOR UPDATE returns
LockProject ==
  \E p \in Sessions :
    /\ kind = "project"
    /\ sessions[p].pc = "started"
    /\ with_for_update(project_lock)
    /\ project_lock' = p
    /\ sessions' = [sessions EXCEPT ![p].pc = "locked"]
    /\ UNCHANGED <<documents, assigned>>
    /\ UNCHANGED <<kind, po_db, quote_db, last, served>>

\* the raises a creation can end with, as recorded in last.code
VendorNotFound == 1
DuplicateSequence == 2

\* create_purchase_order raises "Vendor not found" / "Profile must be of type
\* 'vendor'": the session is closed, its transaction and lock end
RejectVendor ==
  \E p \in Sessions :
    /\ kind = "project"
    /\ sessions[p].pc = "locked"
    /\ sessions[p].request = "create" /\ sessions[p].kind = "po"
    /\ project_lock' = 0
    /\ sessions' = [sessions EXCEPT ![p] = NoSession]
    /\ last' = [op |-> "create", ok |-> FALSE, arg |-> 0, code |-> VendorNotFound]
    /\ UNCHANGED <<documents, assigned>>
    /\ UNCHANGED <<kind, po_db, quote_db, served>>

NextSequence ==
  \E p \in Sessions :
    /\ kind = "project"
    /\ sessions[p].pc = "locked"
    /\ sessions' = [sessions EXCEPT
                      ![p].pc = "sequenced",
                      ![p].next_sequence = IF sessions[p].kind = "po"
                                           THEN get_next_po_sequence(documents)
                                           ELSE get_next_quote_sequence(documents)]
    /\ UNCHANGED <<project_lock, documents, assigned>>
    /\ UNCHANGED <<kind, po_db, quote_db, last, served>>

\* the document row is inserted and the transaction committed (or, on a
\* sequence the project already has, ended by the IntegrityError); either
\* way the lock is released
CommitDocument ==
  \E p \in Sessions :
    /\ kind = "project"
    /\ sessions[p].pc = "sequenced"
    /\ LET row == [kind |-> sessions[p].kind, sequence |-> sessions[p].next_sequence] IN
       IF UniqueSequence(documents, row.kind, row.sequence)
       THEN /\ documents' = Append(documents, row)
            /\ assigned' = Append(assigned, row)
            /\ last' = [op |-> sessions[p].request, ok |-> TRUE, arg |-> row, code |-> 0]
       ELSE /\ UNCHANGED <<documents, assigned>>
            /\ last' = [op |-> sessions[p].request, ok |-> FALSE, arg |-> row,
                         code |-> DuplicateSequence]
    /\ project_lock' = 0
    /\ sessions' = [sessions EXCEPT ![p] = NoSession]
    /\ UNCHANGED <<kind, po_db, quote_db, served>>

\* delete_purchase_order / delete_quote of a document of the project
DeleteDocument ==
  \E i \in 1..Len(documents) :
    /\ kind = "project"
    /\ documents' = SubSeq(documents, 1, i - 1) \o SubSeq(documents, i + 1, Len(documents))
    /\ UNCHANGED <<project_lock, sessions, assigned>>
    /\ UNCHANGED <<kind, po_db, quote_db, last, served>>

InitSequence ==
  /\ kind = "project"
  /\ project_lock = 0
  /\ sessions = [p \in Sessions |-> NoSession]
  /\ documents = <<>>
  /\ assigned = <<>>
  /\ po = <<>>
  /\ po_line_items = <<>>
  /\ po_snapshots = <<>>
  /\ po_receivings = <<>>
  /\ next_line_id = 0
  /\ quote = <<>>
  /\ quote_line_items = <<>>
  /\ quote_snapshots = <<>>
  /\ invoices = <<>>
  /\ next_quote_line_id = 0
  /\ last = [op |-> "none", ok |-> TRUE, arg |-> 0, code |-> 0]
  /\ served = 0

NextSequenceStep ==
  \/ BeginCreate
  \/ BeginClone
  \/ LockProject
  \/ RejectVendor
  \/ NextSequence
  \/ CommitDocument
  \/ DeleteDocument

SpecSequence == InitSequence /\ [][NextSequenceStep]_vars

\* ======================================= concurrent requests on a document
\* Two sessions post fulfillments against one document.  create_po_receiving
\* and create_invoice load the document row and its line items without a
\* lock; the objects a session has loaded keep their attributes whatever
\* other sessions commit meanwhile, and the flush writes, with UPDATE ... SET,
\* the attributes the session changed.  The tables a session only queries or
\* inserts into (receivings, invoices, snapshots) are seen as committed when
\* its statements run (READ COMMITTED, no isolation level is set on the
\* engine).
NotLoaded == [pc |-> "idle", row |-> <<>>, line_items |-> <<>>]

\* UPDATE ... SET of the attributes whose value in the session differs from
\* the value the session loaded
Flushed(committed, loaded, changed) ==
  [c \in DOMAIN committed |-> IF changed[c] # loaded[c] THEN changed[c] ELSE committed[c]]

FlushedLines(committed, loaded, changed) ==
  [id \in DOMAIN committed |->
     IF id \in DOMAIN loaded /\ id \in DOMAIN changed
     THEN Flushed(committed[id], loaded[id], changed[id])
     ELSE committed[id]]

Loading(p, row, line_items) ==
  /\ sessions[p].pc = "idle"
  /\ sessions' = [sessions EXCEPT ![p] = [pc |-> "loaded", row |-> row,
                                          line_items |-> line_items]]
  /\ UNCHANGED <<project_lock, documents, assigned>>
  /\ UNCHANGED <<kind, po_db, quote_db, last, served>>

\* POST /purchase-orders/{id}/receivings arrives: the PO is loaded with its
\* line items (joinedload)
LoadPurchaseOrder ==
  \E p \in DOMAIN sessions :
    /\ kind = "po"
    /\ Loading(p, po, po_line_items)

\* the rest of create_po_receiving, up to db.commit() or the raise
FinishReceiving ==
  \E p \in DOMAIN sessions, e \in POReceivingEntries :
    /\ kind = "po"
    /\ sessions[p].pc = "loaded"
    /\ LET loaded == sessions[p]
           view == [PODB EXCEPT !.po = loaded.row, !.line_items = loaded.line_items]
           r == create_po_receiving(view, <<e>>)
       IN /\ IF r.ok
             THEN /\ po' = Flushed(po, loaded.row, r.db.po)
                  /\ po_line_items' = FlushedLines(po_line_items, loaded.line_items,
                                                   r.db.line_items)
                  /\ po_snapshots' = r.db.snapshots
                  /\ po_receivings' = r.db.receivings
             ELSE UNCHANGED <<po, po_line_items, po_snapshots, po_receivings>>
          /\ last' = [op |-> "receive", ok |-> r.ok, arg |-> <<e>>,
                       code |-> IF r.ok THEN 0 ELSE r.code]
    /\ sessions' = [sessions EXCEPT ![p] = [NotLoaded EXCEPT !.pc = "closed"]]
    /\ served' = served + 1
    /\ UNCHANGED <<next_line_id, project_lock, documents, assigned>>
    /\ UNCHANGED <<kind, quote_db>>

\* POST /quotes/{id}/invoices arrives: the quote is loaded, and its line
\* items by the validation loop
LoadQuote ==
  \E p \in DOMAIN sessions :
    /\ kind = "quote"
    /\ Loading(p, quote, quote_line_items)

\* the rest of create_invoice, up to db.commit() or the raise
FinishInvoice ==
  \E p \in DOMAIN sessions, f \in Fulfillments :
    /\ kind = "quote"
    /\ sessions[p].pc = "loaded"
    /\ LET loaded == sessions[p]
           view == [QuoteDB EXCEPT !.quote = loaded.row, !.line_items = loaded.line_items]
           r == create_invoice(view, <<f>>)
       IN /\ IF r.ok
             THEN /\ quote' = Flushed(quote, loaded.row, r.db.quote)
                  /\ quote_line_items' = FlushedLines(quote_line_items, loaded.line_items,
                                                      r.db.line_items)
                  /\ quote_snapshots' = r.db.snapshots
                  /\ invoices' = r.db.invoices
             ELSE UNCHANGED <<quote, quote_line_items, quote_snapshots, invoices>>
          /\ last' = [op |-> "invoice", ok |-> r.ok, arg |-> <<f>>,
                       code |-> IF r.ok THEN 0 ELSE r.code]
    /\ sessions' = [sessions EXCEPT ![p] = [NotLoaded EXCEPT !.pc = "closed"]]
    /\ served' = served + 1
    /\ UNCHANGED <<next_quote_line_id, project_lock, documents, assigned>>
    /\ UNCHANGED <<kind, po_db>>

\* the documents the sessions contend for: a purchase order that can be
\* received on, or a quote with line items and a client PO number
InitConcurrent ==
  /\ \/ /\ kind = "po"
        /\ \E db \in POSent \cup POReceivedOnce :
             /\ po = db.po
             /\ po_line_items = db.line_items
             /\ po_snapshots = db.snapshots
             /\ po_receivings = db.receivings
             /\ next_line_id = db.next_line_id
        /\ quote = <<>>
        /\ quote_line_items = <<>>
        /\ quote_snapshots = <<>>
        /\ invoices = <<>>
        /\ next_quote_line_id = 0
     \/ /\ kind = "quote"
        /\ \E db \in {q \in QuoteLined \cup QuoteInvoicedOnce :
                        q.quote.client_po_number # Null} :
             /\ quote = db.quote
             /\ quote_line_items = db.line_items
             /\ quote_snapshots = db.snapshots
             /\ invoices = db.invoices
             /\ next_quote_line_id = db.next_line_id
        /\ po = <<>>
        /\ po_line_items = <<>>
        /\ po_snapshots = <<>>
        /\ po_receivings = <<>>
        /\ next_line_id = 0
  /\ sessions = [p \in Sessions |-> NotLoaded]
  /\ project_lock = 0
  /\ documents = <<>>
  /\ assigned = <<>>
  /\ last = [op |-> "create", ok |-> TRUE, arg |-> 0, code |-> 0]
  /\ served = 0

NextConcurrent ==
  \/ LoadPurchaseOrder
  \/ FinishReceiving
  \/ LoadQuote
  \/ FinishInvoice

SpecConcurrent == InitConcurrent /\ [][NextConcurrent]_vars

\* ------------------------------------------------------------ both kinds
Init == InitPO \/ InitQuote

Next ==
  \/ PreviewPORevert
  \/ PreviewRevert
  \/ UpdatePurchaseOrder
  \/ AddPOLine
  \/ UpdatePOLine
  \/ DeletePOLine
  \/ CommitPOEdits
  \/ CreatePOReceiving
  \/ RevertPOToVersion
  \/ UpdateQuote
  \/ ToggleMarkupControl
  \/ AddQuoteLine
  \/ UpdateQuoteLine
  \/ DeleteQuoteLine
  \/ CommitEdits
  \/ CreateInvoice
  \/ UpdateInvoiceStatus
  \/ RevertToSnapshot

Spec == Init /\ [][Next]_vars

\* ------------------------------------------------------------- properties

\* C1: after any sequence of quote operations (add, edit, delete, batch
\* commit, invoice, revert, markup toggle, clone), every quote line item has
\* quantity = qty_pending + qty_fulfilled.
C1_QuoteQuantityIsPendingPlusFulfilled ==
  kind = "quote" =>
    \A id \in DOMAIN quote_line_items :
      LET li == quote_line_items[id] IN
      li.quantity = li.qty_pending + li.qty_fulfilled

\* a revert brought back a line of which part is fulfilled and part pending
C1_Witness ==
  /\ kind = "quote" /\ last.op = "revert" /\ last.ok
  /\ \E id \in DOMAIN quote_line_items :
       /\ quote_line_items[id].qty_fulfilled > 0
       /\ quote_line_items[id].qty_pending > 0

\* C2: after any sequence of purchase-order operations, every PO line item
\* has qty_pending = max(0, quantity - qty_received).
C2_POPendingIsOrderedLessReceived ==
  kind = "po" =>
    \A id \in DOMAIN po_line_items :
      LET li == po_line_items[id] IN
      li.qty_pending = IF li.quantity > li.qty_received
                       THEN li.quantity - li.qty_received ELSE 0

\* a line edited below what was already received: the clamp at 0 applies
C2_Witness ==
  /\ kind = "po" /\ last.op = "edit" /\ last.ok
  /\ \E id \in DOMAIN po_line_items :
       /\ po_line_items[id].quantity < po_line_items[id].qty_received
       /\ po_line_items[id].qty_pending = 0

\* C3: after any operation, every line item of the quote or purchase order
\* has qty_pending >= 0 and qty_fulfilled / qty_received >= 0, also after an
\* accepted fulfill request that names one line item in several entries.
C3_QuantitiesNeverNegative ==
  /\ kind = "quote" =>
       \A id \in DOMAIN quote_line_items :
         /\ quote_line_items[id].qty_pending >= 0
         /\ quote_line_items[id].qty_fulfilled >= 0
  /\ kind = "po" =>
       \A id \in DOMAIN po_line_items :
         /\ po_line_items[id].qty_pending >= 0
         /\ po_line_items[id].qty_received >= 0

\* the entries of a fulfill request that the rows before the request rule
\* out: quantity not positive, more than the line's qty_pending, or a line
\* item that is not the document's
BadFulfillment(entries, lines, id_field, qty_field) ==
  \E i \in 1..Len(entries) :
    \/ entries[i][id_field] \notin DOMAIN lines
    \/ entries[i][qty_field] <= 0
    \/ entries[i][qty_field] > lines[entries[i][id_field]].qty_pending

\* C4: a receiving or invoice request with a bad entry is rejected as a
\* whole: line items, fulfillment events, snapshots and current_version are
\* as before, even when earlier entries of the request were valid.
C4_BadFulfillmentLeavesNoTrace ==
  [][/\ (served' # served /\ kind = "po" /\ last'.op = "receive"
         /\ BadFulfillment(last'.arg, po_line_items, "po_line_item_id", "qty_received"))
          => (~last'.ok /\ UNCHANGED <<po_db, quote_db>>)
     /\ (served' # served /\ kind = "quote" /\ last'.op = "invoice"
         /\ BadFulfillment(last'.arg, quote_line_items, "line_item_id", "quantity"))
          => (~last'.ok /\ UNCHANGED <<po_db, quote_db>>)]_vars

\* a receiving rejected at a later entry, after an earlier entry was applied
\* to the session's rows
C4_Witness ==
  /\ kind = "po" /\ last.op = "receive" /\ ~last.ok /\ last.code >= 1
  /\ \E id \in DOMAIN po_line_items : po_line_items[id].qty_pending > 0

\* C5: after a successful PO receiving, each affected line's
\* actual_unit_price is the quantity-weighted average of the per-unit prices
\* over all non-voided receivings, the one just recorded included.
C5_ActualPriceIsWeightedAverage ==
  (kind = "po" /\ last.op = "receive" /\ last.ok) =>
    \A i \in 1..Len(last.arg) :
      LET id == last.arg[i].po_line_item_id IN
      po_line_items[id].actual_unit_price
        = Quotient(TotalCost(po_receivings, id), TotalReceived(po_receivings, id))

\* C6: after a successful PO receiving, if every line item has qty_pending 0
\* the status is Received; when the receiving changed the status, a
\* status_change snapshot follows the receive snapshot, otherwise the receive
\* snapshot is the only one added.
C6_ReceivingCompletesPO ==
  [][(kind = "po" /\ last'.op = "receive" /\ last'.ok /\ served' # served) =>
       LET n == Len(po_snapshots) IN
       /\ (\A id \in DOMAIN po_line_items' : po_line_items'[id].qty_pending = 0)
            => po'.status = "Received"
       /\ po_snapshots'[n + 1].action_type = "receive"
       /\ IF po'.status # po.status
          THEN /\ Len(po_snapshots') = n + 2
               /\ po_snapshots'[n + 2].action_type = "status_change"
          ELSE Len(po_snapshots') = n + 1]_vars

\* a receiving took the last pending units of a PO that was Sent
C6_Witness ==
  /\ kind = "po" /\ last.op = "receive" /\ last.ok
  /\ po.status = "Received"
  /\ \E id \in DOMAIN po_line_items : po_line_items[id].qty_received > 0
  /\ Len(po_snapshots) >= 2
  /\ po_snapshots[Len(po_snapshots)].action_type = "status_change"
  /\ po_snapshots[Len(po_snapshots) - 1].action_type = "receive"

\* the document has no snapshot of version V, or V is not below current_version
NoSuchPast(snapshots, current_version, V) ==
  \/ \A s \in 1..Len(snapshots) : snapshots[s].version # V
  \/ V >= current_version

\* C7: a revert to a version V that has no snapshot, or with
\* V >= current_version, is rejected, and leaves line items, fulfillment
\* events, snapshots, status and current_version unchanged.
C7_RevertToNoPastVersionRejected ==
  [][(served' # served /\ last'.op = "revert"
      /\ IF kind = "po"
         THEN NoSuchPast(po_snapshots, po.current_version, last'.arg)
         ELSE NoSuchPast(quote_snapshots, quote.current_version, last'.arg))
       => (~last'.ok /\ UNCHANGED <<po_db, quote_db>>)]_vars

\* a revert to the current version, which has a snapshot, of a quote with an
\* invoice that is still not voided
C7_Witness ==
  /\ kind = "quote" /\ last.op = "revert" /\ ~last.ok
  /\ last.arg = quote.current_version
  /\ \E s \in 1..Len(quote_snapshots) : quote_snapshots[s].version = last.arg
  /\ \E i \in 1..Len(invoices) : invoices[i].status # "Voided"

\* the version of the snapshot that recorded event e
RecordingVersion(snapshots, link, e) ==
  snapshots[CHOOSE s \in 1..Len(snapshots) : snapshots[s][link] = e].version

\* C8: a successful revert to V voids exactly the events that were not
\* voided and whose recording snapshot has version > V; an event recorded at
\* a version <= V keeps the voided or non-voided state it had.
C8_RevertVoidsEventsAfterTarget ==
  [][(served' # served /\ last'.op = "revert" /\ last'.ok) =>
       IF kind = "po"
       THEN /\ Len(po_receivings') = Len(po_receivings)
            /\ \A r \in 1..Len(po_receivings) :
                 po_receivings'[r].voided
                   = (\/ po_receivings[r].voided
                      \/ RecordingVersion(po_snapshots, "receiving_id", r) > last'.arg)
       ELSE /\ Len(invoices') = Len(invoices)
            /\ \A i \in 1..Len(invoices) :
                 (invoices'[i].status = "Voided")
                   = (\/ invoices[i].status = "Voided"
                      \/ RecordingVersion(quote_snapshots, "invoice_id", i) > last'.arg)
            /\ \A i \in 1..Len(invoices) :
                 RecordingVersion(quote_snapshots, "invoice_id", i) <= last'.arg
                   => invoices'[i] = invoices[i]]_vars

\* a revert to the version of the first invoice: the second invoice is
\* voided, the first one is not
C8_Witness ==
  /\ kind = "quote" /\ last.op = "revert" /\ last.ok
  /\ \E i, j \in 1..Len(invoices) :
       /\ invoices[i].status = "Voided"
       /\ RecordingVersion(quote_snapshots, "invoice_id", i) > last.arg
       /\ invoices[j].status # "Voided"
       /\ RecordingVersion(quote_snapshots, "invoice_id", j) <= last.arg

\* C9: after a successful PO revert, every live line item has qty_received =
\* the sum of the non-voided receiving records referencing it, qty_pending =
\* max(0, quantity - qty_received), and actual_unit_price = the weighted
\* average over those records (None when there are none).
C9_RevertRecomputesAggregates ==
  (kind = "po" /\ last.op = "revert" /\ last.ok) =>
    \A id \in DOMAIN po_line_items :
      LET li == po_line_items[id]
          total_qty == TotalReceived(po_receivings, id)
          total_cost == TotalCost(po_receivings, id)
      IN /\ li.qty_received = total_qty
         /\ li.qty_pending = IF li.quantity > total_qty
                             THEN li.quantity - total_qty ELSE 0
         /\ li.actual_unit_price = IF total_qty = 0 THEN None
                                   ELSE Quotient(total_cost, total_qty)

\* a revert that voided one receiving and kept an earlier one
C9_Witness ==
  /\ kind = "po" /\ last.op = "revert" /\ last.ok
  /\ \E r \in 1..Len(po_receivings) : po_receivings[r].voided
  /\ \E id \in DOMAIN po_line_items : po_line_items[id].qty_received > 0

RECURSIVE SumOver(_, _)
SumOver(f, S) ==
  IF S = {} THEN 0
  ELSE LET x == CHOOSE x \in S : TRUE IN f[x] + SumOver(f, S \ {x})

\* units on the line records of the invoices that are not voided
InvoicedLive ==
  SumOver([i \in 1..Len(invoices) |->
             IF invoices[i].status = "Voided" THEN 0
             ELSE SumOver([k \in 1..Len(invoices[i].lines) |->
                             invoices[i].lines[k].qty_fulfilled_this_invoice],
                          1..Len(invoices[i].lines))],
          1..Len(invoices))

\* C10: after any successful quote revert, the total qty_fulfilled over the
\* quote's live line items equals the total qty_fulfilled_this_invoice over
\* the line records of its non-voided invoices.
C10_RevertedFulfilledMatchesLiveInvoices ==
  (kind = "quote" /\ last.op = "revert" /\ last.ok) =>
    SumOver([id \in DOMAIN quote_line_items |-> quote_line_items[id].qty_fulfilled],
            DOMAIN quote_line_items)
      = InvoicedLive

\* C11: every line record of a non-voided invoice or receiving references
\* a line item that exists in the document, also after a revert has
\* overwritten, deleted or recreated line items.
C11_LiveEventsReferenceLiveLines ==
  /\ kind = "quote" =>
       \A i \in 1..Len(invoices) :
         invoices[i].status # "Voided" =>
           \A k \in 1..Len(invoices[i].lines) :
             invoices[i].lines[k].quote_line_item_id \in DOMAIN quote_line_items
  /\ kind = "po" =>
       \A r \in 1..Len(po_receivings) :
         ~po_receivings[r].voided =>
           \A k \in 1..Len(po_receivings[r].lines) :
             po_receivings[r].lines[k].po_line_item_id \in DOMAIN po_line_items

\* a snapshot entry without its row identity
Content(entry) == [f \in DOMAIN entry \ {"original_line_item_id"} |-> entry[f]]

\* the non-deleted entries of two snapshots agree up to row identity
SameContent(a, b) ==
  LET live_a == {e \in a.items : ~e.is_deleted}
      live_b == {e \in b.items : ~e.is_deleted}
  IN \A c \in {Content(e) : e \in live_a \cup live_b} :
       Cardinality({e \in live_a : Content(e) = c})
         = Cardinality({e \in live_b : Content(e) = c})

\* the snapshot a revert to V recorded repeats a snapshot of version V
RevertRepeats(before, after, V) ==
  \E t \in 1..Len(before) :
    /\ before[t].version = V
    /\ SameContent(after[Len(after)], before[t])

\* C12: the snapshot recorded by a successful revert to V has non-deleted
\* entries equal, field for field apart from row identity, to the
\* non-deleted entries of V's snapshot.
C12_RevertSnapshotRepeatsTarget ==
  [][(served' # served /\ last'.op = "revert" /\ last'.ok) =>
       IF kind = "po"
       THEN RevertRepeats(po_snapshots, po_snapshots', last'.arg)
       ELSE RevertRepeats(quote_snapshots, quote_snapshots', last'.arg)]_vars

\* C13: current_version never decreases, and a successful revert to V
\* leaves it at its value before the revert plus 1, never at V.
C13_VersionOnlyGrows ==
  [][IF kind = "po"
     THEN /\ po'.current_version >= po.current_version
          /\ (served' # served /\ last'.op = "revert" /\ last'.ok)
               => po'.current_version = po.current_version + 1
     ELSE /\ quote'.current_version >= quote.current_version
          /\ (served' # served /\ last'.op = "revert" /\ last'.ok)
               => quote'.current_version = quote.current_version + 1]_vars

\* a revert to a version more than one below the current one
C13_Witness ==
  /\ kind = "quote" /\ last.op = "revert" /\ last.ok
  /\ last.arg + 2 < quote.current_version

OneSnapshotPerVersion(snapshots) ==
  \A a, b \in 1..Len(snapshots) :
    snapshots[a].version = snapshots[b].version => a = b

\* C14: no two snapshots of the document have the same version.
C14_SnapshotVersionsUnique ==
  IF kind = "po" THEN OneSnapshotPerVersion(po_snapshots)
  ELSE OneSnapshotPerVersion(quote_snapshots)

\* the snapshots a step appended number their versions in order:
\* a create or status_change snapshot repeats the version before it, any
\* other one is 1 above it, and the last one has the document's version
Numbered(before, after, version_before, version_after, unversioned) ==
  /\ \A k \in (Len(before) + 1)..Len(after) :
       LET prev == IF k = Len(before) + 1 THEN version_before
                   ELSE after[k - 1].version
       IN after[k].version = IF after[k].action_type \in unversioned
                             THEN prev ELSE prev + 1
  /\ Len(after) > Len(before) => after[Len(after)].version = version_after
  /\ Len(after) = Len(before) => version_after = version_before

\* C15: a snapshot for initial creation or a pure status change leaves
\* current_version unchanged; one for an edit, delete, batch commit, markup
\* toggle, fulfillment or revert raises it by exactly 1; the new snapshot's
\* version is the document's current_version right after it is recorded.
C15_SnapshotVersionNumbering ==
  [][(served' # served /\ last'.ok) =>
       IF kind = "po"
       THEN /\ Numbered(po_snapshots, po_snapshots', po.current_version,
                        po'.current_version, {"create", "status_change"})
            /\ last'.op = "status" => po'.current_version = po.current_version
            /\ (last'.op \in {"edit", "delete", "receive", "revert"}
                \/ (last'.op = "commit" /\ Len(po_snapshots') > Len(po_snapshots)))
                 => po'.current_version = po.current_version + 1
            /\ \A k \in 1..Len(po_snapshots') :
                 po_snapshots'[k].action_type = "create" => po_snapshots'[k].version = 0
       ELSE /\ Numbered(quote_snapshots, quote_snapshots', quote.current_version,
                        quote'.current_version, {})
            /\ Len(quote_snapshots') <= Len(quote_snapshots) + 1
            /\ (last'.op \in {"delete", "commit", "markup", "invoice", "revert"}
                \/ (last'.op = "edit" /\ Len(quote_snapshots') > Len(quote_snapshots)))
                 => quote'.current_version = quote.current_version + 1]_vars

\* a status update recorded a snapshot at the version the PO already had
C15_Witness ==
  /\ kind = "po" /\ last.op = "status" /\ last.ok
  /\ Len(po_snapshots) >= 2
  /\ po_snapshots[Len(po_snapshots)].action_type = "status_change"
  /\ po_snapshots[Len(po_snapshots)].version = po.current_version
  /\ po_snapshots[Len(po_snapshots) - 1].version = po.current_version
  /\ po.current_version > 0

\* the non-deleted entries of the snapshot are the line items, one to one
\* and field for field
Describes(snapshot, lines) ==
  /\ \A e \in snapshot.items :
       ~e.is_deleted =>
         /\ e.original_line_item_id \in DOMAIN lines
         /\ \A f \in DOMAIN lines[e.original_line_item_id] :
              e[f] = lines[e.original_line_item_id][f]
  /\ \A id \in DOMAIN lines :
       Cardinality({e \in snapshot.items :
                      ~e.is_deleted /\ e.original_line_item_id = id}) = 1

\* the entries flagged is_deleted are those of the rows the step removed
FlagsRemoved(snapshot, lines_before, lines_after) ==
  {e.original_line_item_id : e \in {x \in snapshot.items : x.is_deleted}}
    = DOMAIN lines_before \ DOMAIN lines_after

\* C16: when the operation that recorded a snapshot commits, the snapshot's
\* non-deleted entries correspond one to one to the live line items with the
\* same field values; the item removed by a single-line delete is in that
\* delete's snapshot only as an is_deleted entry.
C16_SnapshotDescribesLineItems ==
  [][(served' # served /\ last'.ok) =>
       IF kind = "po"
       THEN \A k \in (Len(po_snapshots) + 1)..Len(po_snapshots') :
              /\ Describes(po_snapshots'[k], po_line_items')
              /\ last'.op = "delete"
                   => FlagsRemoved(po_snapshots'[k], po_line_items, po_line_items')
       ELSE \A k \in (Len(quote_snapshots) + 1)..Len(quote_snapshots') :
              /\ Describes(quote_snapshots'[k], quote_line_items')
              /\ last'.op = "delete"
                   => FlagsRemoved(quote_snapshots'[k], quote_line_items,
                                   quote_line_items')]_vars

\* a single-line delete that left another line on the purchase order
C16_Witness ==
  /\ kind = "po" /\ last.op = "delete" /\ last.ok
  /\ DOMAIN po_line_items # {}
  /\ \E e \in po_snapshots[Len(po_snapshots)].items : e.is_deleted
  /\ \E e \in po_snapshots[Len(po_snapshots)].items : ~e.is_deleted

\* C17: add line, edit line, delete line and commit batch on a purchase
\* order whose status is not Draft are rejected, and leave its line items,
\* snapshots and current_version unchanged.
C17_LockedPORejectsLineChanges ==
  [][(served' # served /\ kind = "po" /\ po.status # "Draft"
      /\ last'.op \in {"add", "edit", "delete", "commit"})
       => (~last'.ok /\ UNCHANGED po_db)]_vars

\* a batch commit turned away on a purchase order that has receivings
C17_Witness ==
  /\ kind = "po" /\ last.op = "commit" /\ ~last.ok
  /\ po.status \in {"Sent", "Received"}
  /\ \E id \in DOMAIN po_line_items : po_line_items[id].qty_received > 0

\* some line item of the quote has been fulfilled
HasFulfillment(lines) == \E id \in DOMAIN lines : lines[id].qty_fulfilled > 0

\* C18: once a line item of a quote has qty_fulfilled > 0, add line, edit
\* line, delete line, commit batch and markup toggle are rejected with no
\* state change; the line items change only through invoice creation or
\* revert, and only a revert makes the quote editable again.
C18_FrozenQuote ==
  [][(served' # served /\ kind = "quote" /\ HasFulfillment(quote_line_items)) =>
       /\ last'.op \in {"add", "edit", "delete", "commit", "markup"}
            => (~last'.ok /\ UNCHANGED quote_db)
       /\ quote_line_items' # quote_line_items
            => (last'.ok /\ last'.op \in {"invoice", "revert"})
       /\ ~HasFulfillment(quote_line_items')
            => (last'.ok /\ last'.op = "revert")]_vars

\* a markup toggle turned away on a quote with a fulfilled line item
C18_Witness ==
  /\ kind = "quote" /\ last.op = "markup" /\ ~last.ok
  /\ HasFulfillment(quote_line_items)
  /\ \E i \in 1..Len(invoices) : invoices[i].status # "Voided"

\* C19: on a quote with a line item of which some units are fulfilled (5
\* ordered, 2 fulfilled), a request to edit that line's quantity below the
\* fulfilled amount (to 1) is rejected with the quantity-conflict error, not
\* with any other error kind, and the line item is left unchanged.
C19_EditBelowFulfilledIsQuantityConflict ==
  [][(/\ served' # served /\ kind = "quote" /\ last'.op = "edit"
      /\ last'.arg.line_id \in DOMAIN quote_line_items
      /\ quote_line_items[last'.arg.line_id].qty_fulfilled > 0
      /\ last'.arg.line_data.quantity # NoInput
      /\ last'.arg.line_data.quantity < quote_line_items[last'.arg.line_id].qty_fulfilled)
       => /\ ~last'.ok
          /\ last'.code = QuantityConflict
          /\ quote_line_items' = quote_line_items]_vars

\* C20: no successful line-item edit, single or inside a batch commit,
\* leaves a line item with quantity below its fulfilled amount: quantity >=
\* qty_fulfilled on every quote line, quantity >= qty_received on every
\* purchase-order line.
C20_EditKeepsQuantityAboveFulfilled ==
  [][(served' # served /\ last'.ok /\ last'.op \in {"edit", "commit"}) =>
       IF kind = "po"
       THEN \A id \in DOMAIN po_line_items' :
              po_line_items'[id].quantity >= po_line_items'[id].qty_received
       ELSE \A id \in DOMAIN quote_line_items' :
              quote_line_items'[id].quantity >= quote_line_items'[id].qty_fulfilled]_vars

\* place of a status in Draft -> Sent -> Received -> Closed
StatusRank(status) ==
  CASE status = "Draft" -> 0
    [] status = "Sent" -> 1
    [] status = "Received" -> 2
    [] status = "Closed" -> 3

\* C21: every change of a purchase order's status follows Draft -> Sent ->
\* Received -> Closed: apart from the automatic move to Received on full
\* receipt and the status a revert recomputes, no operation moves a purchase
\* order to an earlier status or skips a status.
C21_StatusFollowsMachine ==
  [][(served' # served /\ kind = "po" /\ last'.op \notin {"receive", "revert"}
      /\ po'.status # po.status)
       => StatusRank(po'.status) = StatusRank(po.status) + 1]_vars

\* the status the quantities of the line items call for
StatusOfQuantities(lines) ==
  IF \A id \in DOMAIN lines : lines[id].qty_received = 0 THEN "Draft"
  ELSE IF \A id \in DOMAIN lines : lines[id].qty_pending = 0 THEN "Received"
  ELSE "Sent"

\* no receiving was recorded at or below the version
BeforeAnyReceiving(snapshots, version) ==
  \A s \in 1..Len(snapshots) :
    snapshots[s].action_type = "receive" => snapshots[s].version > version

\* C22: after a successful purchase-order revert the status follows from the
\* recomputed quantities alone, whatever it was before: Draft when no
\* restored line item has a received quantity, Received when every restored
\* line item has qty_pending = 0, Sent otherwise; a revert to a version
\* before any receiving gives qty_received = 0, qty_pending = quantity and
\* status Draft.
C22_RevertStatusFromQuantities ==
  [][(served' # served /\ kind = "po" /\ last'.op = "revert" /\ last'.ok) =>
       /\ po'.status = StatusOfQuantities(po_line_items')
       /\ BeforeAnyReceiving(po_snapshots, last'.arg) =>
            /\ po'.status = "Draft"
            /\ \A id \in DOMAIN po_line_items' :
                 /\ po_line_items'[id].qty_received = 0
                 /\ po_line_items'[id].qty_pending = po_line_items'[id].quantity]_vars

\* a revert that voided the receiving which had completed the purchase
\* order: part of the order is still received, and the status is Sent again
C22_Witness ==
  /\ kind = "po" /\ last.op = "revert" /\ last.ok
  /\ po.status = "Sent"
  /\ \E r \in 1..Len(po_receivings) : po_receivings[r].voided
  /\ \E r \in 1..Len(po_receivings) : ~po_receivings[r].voided
  /\ Len(po_snapshots) >= 3
  /\ po_snapshots[Len(po_snapshots) - 1].action_type = "status_change"
  /\ po_snapshots[Len(po_snapshots) - 2].action_type = "receive"

\* C23: when creation requests (create or clone) for the same project run
\* concurrently, each locking the project row before it computes
\* max(sequence) + 1 and holding the lock until its commit, no two of them
\* receive the same sequence number for the same kind, and no two committed
\* documents of the same kind have the same sequence number.
C23_ConcurrentCreationsGetDistinctSequences ==
  /\ \A p, q \in DOMAIN sessions :
       (/\ p # q
        /\ sessions[p].pc = "sequenced" /\ sessions[q].pc = "sequenced"
        /\ sessions[p].kind = sessions[q].kind)
         => sessions[p].next_sequence # sessions[q].next_sequence
  /\ \A i, j \in 1..Len(documents) :
       (i # j /\ documents[i].kind = documents[j].kind)
         => documents[i].sequence # documents[j].sequence

\* a creation holds the lock with its sequence computed while another
\* creation of the same kind waits for the lock, and a document of that
\* kind is already committed
C23_Witness ==
  \E p, q \in DOMAIN sessions :
    /\ p # q
    /\ sessions[p].pc = "sequenced" /\ project_lock = p
    /\ sessions[q].pc = "started"
    /\ sessions[p].kind = sessions[q].kind
    /\ \E i \in 1..Len(documents) : documents[i].kind = sessions[p].kind

\* C24: sequence numbers within a project only grow and are assigned once:
\* the sequence given to a newly created document is strictly greater than
\* every sequence assigned before to a document of that kind in the project,
\* the deleted documents included.
C24_SequenceAboveAllAssigned ==
  [][(kind = "project" /\ Len(assigned') > Len(assigned)) =>
       \A i \in 1..Len(assigned) :
         assigned[i].kind = assigned'[Len(assigned')].kind
           => assigned'[Len(assigned')].sequence > assigned[i].sequence]_vars

\* ids a batch deletes
DeletedBy(changes) ==
  {changes[i].line_item_id : i \in {j \in 1..Len(changes) : changes[j].action = "delete"}}

\* the quantity the last edit of line `id` in the batch gives, `otherwise`
\* when no edit of the batch gives that line a quantity
FinalQuantity(changes, id, otherwise) ==
  LET giving == {i \in 1..Len(changes) :
                   /\ changes[i].action = "edit"
                   /\ changes[i].line_item_id = id
                   /\ changes[i].quantity # NoInput}
  IN IF giving = {} THEN otherwise
     ELSE changes[CHOOSE i \in giving : \A j \in giving : j <= i].quantity

\* lines_after are lines_before with every change of the batch applied: the
\* deleted rows are gone, the rows that stay have the quantity of their last
\* edit and their fulfilled amount untouched, and each add is a new row, in
\* the order of the adds, with nothing fulfilled
BatchApplied(changes, lines_before, next_id, lines_after, next_id_after, fulfilled) ==
  LET adds == SelectSeq(changes, IsAdd)
      kept == DOMAIN lines_before \ DeletedBy(changes)
      new == {next_id + i - 1 : i \in 1..Len(adds)} \ DeletedBy(changes)
  IN /\ DOMAIN lines_after = kept \cup new
     /\ next_id_after = next_id + Len(adds)
     /\ \A id \in kept :
          /\ lines_after[id].quantity
               = FinalQuantity(changes, id, lines_before[id].quantity)
          /\ lines_after[id][fulfilled] = lines_before[id][fulfilled]
          /\ lines_after[id].unit_price = lines_before[id].unit_price
     /\ \A i \in 1..Len(adds) :
          (next_id + i - 1) \in new =>
            /\ lines_after[next_id + i - 1].quantity
                 = FinalQuantity(changes, next_id + i - 1,
                                 IF adds[i].quantity = NoInput THEN 1
                                 ELSE adds[i].quantity)
            /\ lines_after[next_id + i - 1][fulfilled] = 0

\* the batch edits or deletes a row the document does not have and the batch
\* does not add
NamesNoRow(changes, lines, next_id) ==
  \E i \in 1..Len(changes) :
    /\ changes[i].action \in {"edit", "delete"}
    /\ changes[i].line_item_id \notin DOMAIN lines
    /\ changes[i].line_item_id \notin
         {next_id + k - 1 : k \in 1..Len(SelectSeq(changes, IsAdd))}

\* what C25 asks of the outcome r of a batch on the rows db
BatchAllOrNothing(db, changes, r, fulfilled, document) ==
  /\ NamesNoRow(changes, db.line_items, db.next_line_id) => ~r.ok
  /\ ~r.ok => r.db = db
  /\ r.ok =>
       /\ BatchApplied(changes, db.line_items, db.next_line_id,
                       r.db.line_items, r.db.next_line_id, fulfilled)
       /\ Len(r.db.snapshots) = Len(db.snapshots) + 1
       /\ r.db[document].current_version = db[document].current_version + 1
       /\ r.db.snapshots[Len(r.db.snapshots)].version = r.db[document].current_version

\* C25: a successful batch commit with at least one change applies all of
\* its deletes, edits and adds and records exactly one snapshot
\* (current_version + 1, however many changes the batch holds); a batch in
\* which any change is invalid applies none of its changes and records no
\* snapshot.  Stated of the outcome of every batch that a state in which a
\* request is served can be sent.
C25_BatchAllOrNothing ==
  /\ Serving("po") =>
       \A changes \in SeqsUpTo(POChanges, MaxEntries) \ {<<>>} :
         BatchAllOrNothing(PODB, changes, commit_po_edits(PODB, changes),
                           "qty_received", "po")
  /\ Serving("quote") =>
       \A changes \in SeqsUpTo(QuoteChanges, MaxEntries) \ {<<>>},
          part_cost \in PartCosts :
         BatchAllOrNothing(QuoteDB, changes, commit_edits(QuoteDB, changes, part_cost),
                           "qty_fulfilled", "quote")

\* a batch of several changes was committed: one snapshot more than before,
\* and its rows differ from the snapshot before in more than one line item
C25_Witness ==
  /\ kind = "po" /\ last.op = "commit" /\ last.ok
  /\ Len(po_snapshots) >= 2
  /\ po_snapshots[Len(po_snapshots)].version
       = po_snapshots[Len(po_snapshots) - 1].version + 1
  /\ Cardinality(po_snapshots[Len(po_snapshots)].items
                   \ po_snapshots[Len(po_snapshots) - 1].items) >= 2

\* an invoice counts as voided by its status or by its voided_at
VoidedInvoice(invoice) == invoice.status = "Voided" \/ invoice.voided_at

\* C26: a fulfillment event becomes voided only through a successful revert
\* of its document, and once voided it never becomes non-voided again,
\* whatever comes later (invoice status update, further fulfillment, edit,
\* another revert to any version); events are never removed.
C26_VoidedOnlyByRevertAndForGood ==
  [][/\ Len(po_receivings') >= Len(po_receivings)
     /\ \A r \in 1..Len(po_receivings) :
          /\ po_receivings[r].voided => po_receivings'[r].voided
          /\ (~po_receivings[r].voided /\ po_receivings'[r].voided)
               => (last'.op = "revert" /\ last'.ok)
     /\ Len(invoices') >= Len(invoices)
     /\ \A i \in 1..Len(invoices) :
          /\ VoidedInvoice(invoices[i])
               => (invoices'[i].status = "Voided" /\ invoices'[i].voided_at)
          /\ (~VoidedInvoice(invoices[i]) /\ VoidedInvoice(invoices'[i]))
               => (last'.op = "revert" /\ last'.ok)
     /\ \A i \in (Len(invoices) + 1)..Len(invoices') : ~VoidedInvoice(invoices'[i])
     /\ \A r \in (Len(po_receivings) + 1)..Len(po_receivings') :
          ~po_receivings'[r].voided]_vars

\* a status update was asked for an invoice that a revert had voided
C26_Witness ==
  /\ kind = "quote" /\ last.op = "invoice_status" /\ ~last.ok /\ last.code = 1
  /\ \E i \in 1..Len(invoices) : VoidedInvoice(invoices[i])

\* every event has voided_at set exactly when it has voided_by_snapshot_id set
VoidingRecorded(receivings, all_invoices) ==
  /\ \A r \in 1..Len(receivings) :
       receivings[r].voided <=> receivings[r].voided_by_snapshot_id # 0
  /\ \A i \in 1..Len(all_invoices) :
       all_invoices[i].voided_at <=> all_invoices[i].voided_by_snapshot_id # 0

\* C27: after a successful revert, every fulfillment event voided by that
\* revert has voided_by_snapshot_id equal to the id of the snapshot recorded
\* for that revert; in every committed state an event has voided_at set if
\* and only if it has voided_by_snapshot_id set.
C27_VoidedEventsNameRevertSnapshot ==
  [][/\ VoidingRecorded(po_receivings', invoices')
     /\ (served' # served /\ last'.op = "revert" /\ last'.ok) =>
          /\ \A r \in 1..Len(po_receivings) :
               (~po_receivings[r].voided /\ po_receivings'[r].voided)
                 => po_receivings'[r].voided_by_snapshot_id = Len(po_snapshots')
          /\ \A i \in 1..Len(invoices) :
               (~invoices[i].voided_at /\ invoices'[i].voided_at)
                 => invoices'[i].voided_by_snapshot_id = Len(quote_snapshots')]_vars

\* the events a step voids
VoidedByStep ==
  IF kind = "po"
  THEN {r \in 1..Len(po_receivings) : ~po_receivings[r].voided /\ po_receivings'[r].voided}
  ELSE {i \in 1..Len(invoices) : invoices[i].status # "Voided"
                                  /\ invoices'[i].status = "Voided"}

\* C28: a revert preview changes no state (no event voided, no line item,
\* snapshot, status or version changed), and whenever the revert to the same
\* version issued right after it succeeds, the events that revert voids are
\* exactly the events the preview listed.
C28_PreviewListsWhatRevertVoids ==
  [][(served' # served) =>
       /\ last'.op = "preview" => UNCHANGED <<po_db, quote_db>>
       /\ (/\ last.op = "preview" /\ last.ok
           /\ last'.op = "revert" /\ last'.ok
           /\ last'.arg = last.arg.version)
            => VoidedByStep = last.arg.events]_vars

\* a preview was answered with events to void, for a version the document
\* can be reverted to
C28_Witness ==
  /\ last.op = "preview" /\ last.ok
  /\ last.arg.events # {}
  /\ served < MaxRequests
  /\ IF kind = "po" THEN revert_po_to_version(PODB, last.arg.version,
                           CHOOSE t \in TargetSnapshots(PODB, last.arg.version) : TRUE).ok
     ELSE revert_to_snapshot(QuoteDB, last.arg.version,
            CHOOSE t \in QuoteTargetSnapshots(QuoteDB, last.arg.version) : TRUE).ok

\* no line item carries a discount code
NoDiscounts(lines) == \A id \in DOMAIN lines : lines[id].discount_code_id = Null

\* C29: while a quote's markup control is enabled, no line item of the quote
\* carries a discount code: enabling is rejected, with nothing changed, if a
\* line has a discount code or if no percent is given, and no operation
\* performed while it stays enabled (add line, edit line, commit batch,
\* revert) results in a line item with a discount code.
C29_NoDiscountUnderMarkupControl ==
  [][(served' # served /\ kind = "quote") =>
       /\ quote'.markup_control_enabled => NoDiscounts(quote_line_items')
       /\ last'.op = "markup" =>
            /\ ~last'.ok => UNCHANGED quote_db
            /\ (~quote.markup_control_enabled /\ quote'.markup_control_enabled)
                 => (NoDiscounts(quote_line_items) /\ quote'.global_markup_percent # Null)]_vars

\* every line item that is not exempt (not PMS) has a stored base cost and is
\* priced at that base cost marked up by what percent(item) gives
PricedFromBaseCost(lines, percent(_)) ==
  \A id \in DOMAIN lines :
    ~lines[id].is_pms =>
      /\ lines[id].base_cost # Null
      /\ percent(lines[id]) # Null
      /\ lines[id].unit_price = MarkedUp(lines[id].base_cost, percent(lines[id]))

\* C30: enabling global markup at percent p sets the unit_price of every
\* non-exempt line item to base_cost * (1 + p/100) (base_cost 100 and p = 20
\* give 120), and disabling it afterwards sets the unit_price of every
\* non-exempt line item to base_cost * (1 + original_markup_percent/100).
C30_MarkupRecalculatesUnitPrices ==
  [][(served' # served /\ kind = "quote" /\ last'.op = "markup" /\ last'.ok) =>
       /\ (~quote.markup_control_enabled /\ quote'.markup_control_enabled) =>
            LET global(item) == quote'.global_markup_percent
            IN PricedFromBaseCost(quote_line_items', global)
       /\ (quote.markup_control_enabled /\ ~quote'.markup_control_enabled) =>
            LET original(item) == item.original_markup_percent
            IN PricedFromBaseCost(quote_line_items', original)]_vars

\* C31: when markup control is already enabled, changing the percent
\* recomputes each non-exempt line item's unit_price from the base_cost stored
\* when the item entered markup mode and leaves base_cost and
\* original_markup_percent unchanged, so a catalog cost change made after
\* enabling never alters the resulting price: whatever cost the catalog holds
\* at the update, the line items come out the same.
C31_UpdatePricesFromStoredBaseCost ==
  [][(served' # served /\ kind = "quote" /\ last'.op = "markup" /\ last'.ok
      /\ quote.markup_control_enabled /\ quote'.markup_control_enabled) =>
       /\ DOMAIN quote_line_items' = DOMAIN quote_line_items
       /\ \A id \in DOMAIN quote_line_items :
            LET item == quote_line_items[id]
                updated == quote_line_items'[id]
            IN /\ updated.base_cost = item.base_cost
               /\ updated.original_markup_percent = item.original_markup_percent
               /\ (~item.is_pms /\ item.base_cost # Null) =>
                    updated.unit_price =
                      MarkedUp(item.base_cost, quote'.global_markup_percent)
       /\ \A part_cost \in PartCosts :
            toggle_markup_control(QuoteDB, TRUE, quote'.global_markup_percent,
                                  part_cost).db.line_items = quote_line_items'
     ]_vars

\* the percent of a quote under markup control was changed: the line item
\* that entered markup mode at 20% with a positive base cost is now at 50%
C31_Witness ==
  /\ kind = "quote" /\ last.op = "markup" /\ last.ok
  /\ quote.markup_control_enabled /\ quote.global_markup_percent = 50
  /\ Len(quote_snapshots) >= 2
  /\ \E id \in DOMAIN quote_line_items :
       /\ quote_line_items[id].base_cost > 0
       /\ quote_line_items[id].unit_price = MarkedUp(quote_line_items[id].base_cost, 50)
       /\ \E item \in quote_snapshots[Len(quote_snapshots) - 1].items :
            /\ item.original_line_item_id = id
            /\ item.base_cost = quote_line_items[id].base_cost
            /\ item.unit_price = MarkedUp(item.base_cost, 20)

\* C32: after markup control is disabled on a quote, the stored override
\* fields base_cost and original_markup_percent of every line item of that
\* quote are cleared (null).
C32_DisableClearsOverrides ==
  [][(served' # served /\ kind = "quote" /\ last'.op = "markup" /\ last'.ok
      /\ quote.markup_control_enabled /\ ~quote'.markup_control_enabled) =>
       \A id \in DOMAIN quote_line_items' :
         /\ quote_line_items'[id].base_cost = Null
         /\ quote_line_items'[id].original_markup_percent = Null]_vars

\* C33: enabling, updating and disabling markup control leave unit_price,
\* base_cost and original_markup_percent of every exempt (PMS) line item
\* exactly as they were.
C33_MarkupControlSkipsExemptItems ==
  [][(served' # served /\ kind = "quote" /\ last'.op = "markup") =>
       \A id \in DOMAIN quote_line_items :
         quote_line_items[id].is_pms =>
           /\ id \in DOMAIN quote_line_items'
           /\ quote_line_items'[id].unit_price = quote_line_items[id].unit_price
           /\ quote_line_items'[id].base_cost = quote_line_items[id].base_cost
           /\ quote_line_items'[id].original_markup_percent =
                quote_line_items[id].original_markup_percent]_vars

\* markup control was enabled and then disabled on a quote that holds a PMS
\* line item, untouched, next to a part line item that both toggles repriced
C33_Witness ==
  /\ kind = "quote" /\ last.op = "markup" /\ last.ok
  /\ ~quote.markup_control_enabled /\ Len(quote_snapshots) >= 2
  /\ \E id \in DOMAIN quote_line_items :
       /\ quote_line_items[id].is_pms
       /\ quote_line_items[id].base_cost = Null
  /\ \E id \in DOMAIN quote_line_items :
       /\ ~quote_line_items[id].is_pms
       /\ quote_line_items[id].base_cost > 0
       /\ \E item \in quote_snapshots[Len(quote_snapshots) - 1].items :
            /\ item.original_line_item_id = id
            /\ item.base_cost = quote_line_items[id].base_cost
            /\ item.unit_price # quote_line_items[id].unit_price

\* the line items (quantities and prices) and the document status a request
\* outcome leaves behind
POAggregates(r) == [ok |-> r.ok, line_items |-> r.db.line_items, status |-> r.db.po.status]

QuoteAggregates(r) == [ok |-> r.ok, line_items |-> r.db.line_items]

\* C34: revert is deterministic: from two identical starting states of a
\* document (same line items, snapshots and events), revert to the same
\* version V yields the same line-item quantities, prices and document status
\* in both, whichever snapshot of version V the lookup of either run returns.
C34_RevertIsDeterministic ==
  /\ kind = "po" =>
       \A version \in Versions(po.current_version) :
         \A t1, t2 \in TargetSnapshots(PODB, version) :
           POAggregates(revert_po_to_version(PODB, version, t1))
             = POAggregates(revert_po_to_version(PODB, version, t2))
  /\ kind = "quote" =>
       \A version \in Versions(quote.current_version) :
         \A t1, t2 \in QuoteTargetSnapshots(QuoteDB, version) :
           QuoteAggregates(revert_to_snapshot(QuoteDB, version, t1))
             = QuoteAggregates(revert_to_snapshot(QuoteDB, version, t2))

\* a purchase order was reverted to a version that two snapshots carry, and
\* the revert changed its line items
C34_Witness ==
  /\ kind = "po" /\ last.op = "revert" /\ last.ok
  /\ Cardinality({s \in 1..(Len(po_snapshots) - 1) :
                    po_snapshots[s].version = last.arg}) >= 2
  /\ \E s \in 1..(Len(po_snapshots) - 1) :
       /\ po_snapshots[s].version = po.current_version - 1
       /\ {[it EXCEPT !.is_deleted = FALSE] : it \in po_snapshots[s].items}
            # po_snapshots[Len(po_snapshots)].items

\* the entries of a snapshot for line items that were not deleted
LiveEntries(snapshot) == {it \in snapshot.items : ~it.is_deleted}

\* C37: all snapshots of one purchase order that share a version number have
\* identical non-deleted line-item entries, so the outcome of
\* revert_po_to_version for that version does not depend on which of those
\* snapshots its lookup returns.
C37_SameVersionSnapshotsAgree ==
  kind = "po" =>
    /\ \A s1, s2 \in 1..Len(po_snapshots) :
         po_snapshots[s1].version = po_snapshots[s2].version
           => LiveEntries(po_snapshots[s1]) = LiveEntries(po_snapshots[s2])
    /\ \A version \in Versions(po.current_version) :
         \A t1, t2 \in TargetSnapshots(PODB, version) :
           revert_po_to_version(PODB, version, t1) = revert_po_to_version(PODB, version, t2)

\* an earlier version of the purchase order carries two snapshots, recorded
\* by different actions, and a revert to that version is accepted
C37_Witness ==
  /\ kind = "po" /\ last.ok
  /\ \E s1, s2 \in 1..Len(po_snapshots) :
       /\ po_snapshots[s1].version = po_snapshots[s2].version
       /\ po_snapshots[s1].action_type # po_snapshots[s2].action_type
       /\ LiveEntries(po_snapshots[s1]) # {}
       /\ revert_po_to_version(PODB, po_snapshots[s1].version, s1).ok
       /\ revert_po_to_version(PODB, po_snapshots[s1].version, s2).ok

\* units on the line records, for one line item, of the invoices that are
\* not voided
RECURSIVE TotalFulfilled(_, _)
TotalFulfilled(rows, id) ==
  IF rows = <<>> THEN 0
  ELSE (IF Head(rows).status = "Voided" THEN 0
        ELSE SumOver([k \in 1..Len(Head(rows).lines) |->
                        IF Head(rows).lines[k].quote_line_item_id = id
                        THEN Head(rows).lines[k].qty_fulfilled_this_invoice ELSE 0],
                     1..Len(Head(rows).lines)))
       + TotalFulfilled(Tail(rows), id)

\* C35: when two fulfill requests against the same line item run
\* concurrently, each in its own transaction that reads qty_pending,
\* validates against it and writes back the new quantities without locking
\* the line item or document, the committed result never records more total
\* quantity across the two events than the qty_pending the line had before
\* them (the events of a line never add up to more than its quantity), and
\* the line's qty_fulfilled / qty_received still equals the sum over its
\* non-voided events.
C35_ConcurrentFulfillmentsKeepQuantities ==
  /\ kind = "po" =>
       \A id \in DOMAIN po_line_items :
         /\ TotalReceived(po_receivings, id) <= po_line_items[id].quantity
         /\ po_line_items[id].qty_received = TotalReceived(po_receivings, id)
  /\ kind = "quote" =>
       \A id \in DOMAIN quote_line_items :
         /\ TotalFulfilled(invoices, id) <= quote_line_items[id].quantity
         /\ quote_line_items[id].qty_fulfilled = TotalFulfilled(invoices, id)

\* C36: when two version-incrementing requests on the same document (edit,
\* delete, fulfill, revert or markup toggle) run concurrently and both
\* commit, their snapshots receive two different version numbers and
\* current_version ends at its initial value plus 2: no version increment is
\* lost.  Stated of each commit: it raises the committed current_version by
\* one, and the snapshot it records takes a version that no snapshot of an
\* earlier version-incrementing request has.
C36_NoVersionIncrementLost ==
  [][(served' # served /\ last'.ok /\ last'.op \in {"receive", "invoice"}) =>
       /\ kind = "po" =>
            /\ po'.current_version = po.current_version + 1
            /\ \A s \in 1..Len(po_snapshots) :
                 po_snapshots[s].action_type \notin {"create", "status_change"}
                   => po_snapshots[s].version
                        # po_snapshots'[Len(po_snapshots) + 1].version
       /\ kind = "quote" =>
            /\ quote'.current_version = quote.current_version + 1
            /\ \A s \in 1..Len(quote_snapshots) :
                 quote_snapshots[s].version
                   # quote_snapshots'[Len(quote_snapshots) + 1].version]_vars

\* C38: setting a quote's global markup to percent p (enabling markup
\* control) and then setting it again to the same p leaves every line item's
\* unit_price equal to what it was after the first call, for every line item
\* including those whose resolved base_cost is 0.
C38_SameMarkupTwiceKeepsPrices ==
  [][(/\ served' # served /\ kind = "quote"
      /\ last.op = "markup" /\ last.ok /\ quote.markup_control_enabled
      /\ last'.op = "markup" /\ last'.ok /\ quote'.markup_control_enabled
      /\ quote'.global_markup_percent = quote.global_markup_percent) =>
       \A id \in DOMAIN quote_line_items :
         quote_line_items'[id].unit_price = quote_line_items[id].unit_price]_vars

\* C39: a purchase-order receiving is recorded only while the purchase
\* order's status is Sent or Received: a receiving request on a Draft or
\* Closed purchase order is rejected and records no receiving, no snapshot
\* and no quantity change, so after a revert has set the status to Draft no
\* receiving can be recorded until the status is set to Sent again.
C39_ReceivingOnlyWhileSentOrReceived ==
  [][(served' # served /\ kind = "po") =>
       /\ Len(po_receivings') > Len(po_receivings)
            => (last'.op = "receive" /\ po.status \in {"Sent", "Received"})
       /\ (last'.op = "receive" /\ po.status \in {"Draft", "Closed"})
            => (~last'.ok /\ UNCHANGED po_db)]_vars

\* a revert has set the status of the purchase order to Draft, and the
\* receiving asked for next, of a unit the line still has pending, was
\* rejected for the status
C39_Witness ==
  /\ kind = "po" /\ last.op = "receive" /\ ~last.ok /\ last.code = -1
  /\ po.status = "Draft"
  /\ po_snapshots[Len(po_snapshots)].action_type = "revert"
  /\ \A i \in 1..Len(last.arg) :
       /\ last.arg[i].po_line_item_id \in DOMAIN po_line_items
       /\ last.arg[i].qty_received <= po_line_items[last.arg[i].po_line_item_id].qty_pending

====
